---- MODULE Spec2Model ----
(***************************************************************************)
(* Model of jupyterhubutils: the prepuller (scanrepo/prepuller.py) and the  *)
(* repository scanner (scanrepo/scanrepo.py).                              *)
(*                                                                         *)
(* Strings that the code takes apart (image, node, pod and tag names)       *)
(* are sequences of one-character strings, so that split, join and replace *)
(* are computed the way Python computes them.                              *)
(***************************************************************************)
EXTENDS Integers, Sequences, FiniteSets, TLC

(***************************************************************************)
(* Bounds of the model.                                                    *)
(***************************************************************************)
\* at most this many schedulable nodes in the cluster
MaxNodes == 2
\* at most this many images in the prepuller's image list
MaxImages == 2
\* at most this many pod specs in the node x image matrix of a run
MaxPods == 4
\* poll budget of wait_for_pod (max_tries; the code's default is 3600)
MaxTries == 2
\* at most this many tags in the upstream registry's listing
MaxTags == 2
\* at most this many calls of report_reapable() and reap() on a reaper
MaxCalls == 2
\* the longest max_scan_delay of a configuration
MaxDelay == 6

(***************************************************************************)
(* Python string primitives on character sequences.                        *)
(***************************************************************************)
\* str.replace(a, b) for single characters
Replace(s, a, b) == [i \in 1..Len(s) |-> IF s[i] = a THEN b ELSE s[i]]

\* position of the first c in s, 0 when absent
RECURSIVE FindFrom(_, _, _)
FindFrom(s, c, i) ==
    IF i > Len(s) THEN 0
    ELSE IF s[i] = c THEN i
    ELSE FindFrom(s, c, i + 1)

\* str.split(c): always at least one part, parts may be empty
RECURSIVE Split(_, _)
Split(s, c) ==
    LET k == FindFrom(s, c, 1)
    IN  IF k = 0 THEN <<s>>
        ELSE <<SubSeq(s, 1, k - 1)>> \o Split(SubSeq(s, k + 1, Len(s)), c)

\* c.join(parts)
RECURSIVE Join(_, _)
Join(parts, c) ==
    IF Len(parts) = 0 THEN <<>>
    ELSE IF Len(parts) = 1 THEN parts[1]
    ELSE parts[1] \o <<c>> \o Join(Tail(parts), c)

\* seq[-k:]
LastK(seq, k) ==
    IF Len(seq) <= k THEN seq ELSE SubSeq(seq, Len(seq) - k + 1, Len(seq))

\* seq[-1]
Last(seq) == seq[Len(seq)]

\* code points of the characters the model uses (Python compares str by them)
Ord(c) ==
    CASE c = "-" -> 45
      [] c = "/" -> 47
      [] c = "1" -> 49
      [] c = "2" -> 50
      [] c = "3" -> 51
      [] c = ":" -> 58
      [] c = "_" -> 95
      [] c = "a" -> 97
      [] c = "b" -> 98
      [] c = "d" -> 100
      [] c = "e" -> 101
      [] c = "h" -> 104
      [] c = "i" -> 105
      [] c = "l" -> 108
      [] c = "n" -> 110
      [] c = "o" -> 111
      [] c = "p" -> 112
      [] c = "r" -> 114
      [] c = "s" -> 115
      [] c = "t" -> 116
      [] c = "w" -> 119
      [] c = "x" -> 120
      [] c = "y" -> 121
      [] OTHER -> 0

\* s < t in Python's str ordering
RECURSIVE StrLess(_, _)
StrLess(s, t) ==
    IF Len(t) = 0 THEN FALSE
    ELSE IF Len(s) = 0 THEN TRUE
    ELSE IF Ord(Head(s)) # Ord(Head(t)) THEN Ord(Head(s)) < Ord(Head(t))
    ELSE StrLess(Tail(s), Tail(t))

\* sorted(S) for a set of strings: list(set(xs)) followed by .sort()
RECURSIVE SortedList(_)
SortedList(S) ==
    IF S = {} THEN <<>>
    ELSE LET m == CHOOSE x \in S : \A y \in S \ {x} : StrLess(x, y)
         IN  <<m>> \o SortedList(S \ {m})

\* the elements of a sequence
Range(seq) == {seq[i] : i \in 1..Len(seq)}


(***************************************************************************)
(* The cluster and the inputs of a run.                                    *)
(***************************************************************************)
\* node names known to the cluster API: "a-1", "a-2", "b-1", "b-2"
NodeA1 == <<"a", "-", "1">>
NodeA2 == <<"a", "-", "2">>
NodeB1 == <<"b", "-", "1">>
NodeB2 == <<"b", "-", "2">>
NodeNames == {NodeA1, NodeA2, NodeB1, NodeB2}

\* the label sets a node may carry (label key -> value, absent keys left out)
NoLabels == [k \in {} |-> "ok"]
LabLabels == [k \in {"jupyterlab"} |-> "ok"]
DaskLabels == [k \in {"dask"} |-> "ok"]
OtherLabels == [k \in {"pool"} |-> "ok"]
LabelSets == {NoLabels, LabLabels, DaskLabels, OtherLabels}

\* the taint effects a node may carry
TaintSets == {{}, {"NoSchedule"}, {"PreferNoSchedule"}}

\* a V1Node as build_nodelist reads it
NodeRecords ==
    [name : NodeNames, unschedulable : BOOLEAN, taints : TaintSets,
     labels : LabelSets]

\* fully qualified image names: "o/n:d_1", "o/n:d-1", "h/o/n:w1"
ImgD_1 == <<"o", "/", "n", ":", "d", "_", "1">>
ImgD1 == <<"o", "/", "n", ":", "d", "-", "1">>
ImgHW1 == <<"h", "/", "o", "/", "n", ":", "w", "1">>
ImagePool == {ImgD_1, ImgD1, ImgHW1}

\* a pod of the working namespace that no prepuller created: "a"
ForeignPod == <<"a">>

\* the phases in which a pod has ended; a pod is created in phase "Pending",
\* which stands for every phase the prepuller keeps waiting in
Terminal == {"Succeeded", "Failed"}

\* values of args.timeout, in clock ticks: negative means no timeout
Timeouts == {-1, 0, 1}

VARIABLES
    cluster_nodes,  \* the V1Node items list_node() returns, in listing order
    environ,        \* os.environ: the RESTRICT_* / ALLOW_* switches
    pods,           \* the working namespace: pod name -> [phase, node, mine]
    nodes,          \* Prepuller.nodes
    images,         \* Prepuller.images
    pod_specs,      \* Prepuller.pod_specs: node name -> list of pod specs
    timeout,        \* args.timeout
    clock,          \* seconds since construction (since signal.alarm)
    mpc,            \* position of the main thread
    mi,             \* loop index of the main thread (spawn, join, delete loops)
    selective,      \* argument of the _destroy_pods call in progress
    cleanup,        \* deletion list of the _destroy_pods call in progress
    wpc,            \* position of each node's worker thread
    wspecs,         \* the speclist argument of each worker
    widx,           \* index into speclist of each worker
    tries,          \* wait_for_pod's tries, per worker
    wpod,           \* podname held by each worker
    wphase,         \* phase last read by each worker
    wexc,           \* exception that ended each worker ("" when none)
    errlog,         \* the lines written by logger.error
    hist            \* history: what the run did (never read by the program)

VARIABLES
    registry,       \* the upstream registry: the response to each page request
    ctor,           \* the arguments ScanRepo was constructed with
    dailies,        \* ScanRepo.dailies
    weeklies,       \* ScanRepo.weeklies
    releases,       \* ScanRepo.releases
    sort_field,     \* ScanRepo.sort_field
    data,           \* ScanRepo.data: category -> kept entries
    _all_tags,      \* ScanRepo._all_tags
    spc,            \* position of the thread that runs scan()
    page,           \* scan's local page
    results,        \* scan's local results
    all_tags,       \* _reduce_results' local all_tags, between its two stores
    rpc,            \* position of a reader thread
    rdata,          \* what the reader's get_data() returned
    rtags,          \* what the reader's get_all_tags() returned
    shist           \* history of the scans (never read by the program)

VARIABLES
    info,               \* what extract_image_info() returned, or how it ended
    _results_map,       \* the scanner's map: tag name -> its scanned record
    _categorized_tags,  \* Reaper._categorized_tags, an attribute of the class
    reapable,           \* Reaper.reapable: (tag, hash) in insertion order
    keep_experimentals, \* Reaper.keep_experimentals
    keep_dailies,       \* Reaper.keep_dailies
    keep_weeklies,      \* Reaper.keep_weeklies
    dry_run,            \* Reaper.dry_run
    registry_url,       \* the scanner's registry_url
    kpc,                \* position of the thread that calls the reaper
    ktags,              \* _delete_from_repo's local tags
    kidx,               \* index of the deletion loop into tags
    khist               \* history of the reaper (never read by the program)

VARIABLES
    scan_cfg,           \* parent.config: the three settings _sync_scan reads
    last_updated,       \* scanner.last_updated: the epoch until a scan ends
    fpc,                \* position of the caller of _sync_scan
    delay_interval,     \* _sync_scan's local delay_interval
    delay,              \* _sync_scan's local delay
    fhist               \* history of _sync_scan (never read by the program)

VARIABLES
    class_images,       \* Prepuller.images, the list of the class itself
    inst                \* the Prepuller objects a process constructs

VARIABLES
    namespace,          \* LSSTNamespaceManager.namespace
    ns_exists,          \* the cluster has that namespace
    ns_pods,            \* the namespace's pods: pod name -> phase
    npc,                \* position of the caller of maybe_delete_namespace
    ns_podlist,         \* maybe_delete_namespace's local podlist
    nhist               \* the pods a deleted namespace held (never read)

VARIABLES
    cilogon_allowlist,  \* config: the groups that may log in
    cilogon_denylist,   \* config: the groups that may not
    auth_states,        \* the users whose auth state the hub has saved
    login_cookies,      \* the users a login cookie was set for
    jreq,               \* the request get() last served
    response            \* the HTTP status get() ended with

vars ==
    <<cluster_nodes, environ, pods, nodes, images, pod_specs, timeout, clock,
      mpc, mi, selective, cleanup, wpc, wspecs, widx, tries, wpod, wphase, wexc,
      errlog, hist,
      registry, ctor, dailies, weeklies, releases, sort_field, data, _all_tags,
      spc, page, results, all_tags, rpc, rdata, rtags, shist,
      info, _results_map, _categorized_tags, reapable, keep_experimentals,
      keep_dailies, keep_weeklies, dry_run, registry_url, kpc, ktags, kidx,
      khist,
      scan_cfg, last_updated, fpc, delay_interval, delay, fhist,
      class_images, inst,
      namespace, ns_exists, ns_pods, npc, ns_podlist, nhist,
      cilogon_allowlist, cilogon_denylist, auth_states, login_cookies, jreq,
      response>>

cluster_vars == <<cluster_nodes, environ>>
prepuller_vars == <<nodes, images, pod_specs>>
worker_vars == <<wpc, wspecs, widx, tries, wpod, wphase, wexc>>
destroy_vars == <<selective, cleanup>>
config_vars == <<ctor, dailies, weeklies, releases, sort_field>>
scan_vars == <<data, _all_tags, spc, page, results, all_tags>>
reader_vars == <<rpc, rdata, rtags>>
scanner_vars == <<registry, config_vars, scan_vars, reader_vars, shist>>
keep_vars == <<keep_experimentals, keep_dailies, keep_weeklies, dry_run>>
delete_vars == <<kpc, ktags, kidx>>
reaper_vars ==
    <<_results_map, _categorized_tags, reapable, keep_vars, registry_url,
      delete_vars, khist>>
\* everything outside the prepuller and the scanning thread
form_vars == <<scan_cfg, last_updated, fpc, delay_interval, delay, fhist>>
\* the components beside prepuller, scanner and reaper
ctor_vars == <<class_images, inst>>
\* the components modelled on their own, beside the options form manager
ns_vars == <<namespace, ns_exists, ns_pods, npc, ns_podlist, nhist>>
jwt_vars ==
    <<cilogon_allowlist, cilogon_denylist, auth_states, login_cookies, jreq,
      response>>
late_vars == <<ctor_vars, ns_vars, jwt_vars>>
extra_vars == <<form_vars, late_vars>>
other_vars == <<info, reaper_vars, extra_vars>>

(***************************************************************************)
(* Pod specs and pod names.                                                *)
(***************************************************************************)
\* Prepuller._podname_from_image
_podname_from_image(img) ==
    LET iname == Join(LastK(Split(img, "/"), 2), "-")
    IN  Replace(Replace(iname, ":", "-"), "_", "-")

\* Prepuller._build_pod_spec: the fields of the V1PodSpec that vary
_build_pod_spec(img, node) ==
    [image |-> img, name |-> _podname_from_image(img), node_name |-> node]

\* Prepuller._derive_pod_name
_derive_pod_name(spec) ==
    <<"p", "p", "-">> \o _podname_from_image(spec.image) \o <<"-">>
        \o Last(Split(spec.node_name, "-"))

\* the specs dict build_pod_specs builds from a node list and an image list;
\* a dict is kept as the sequence of its (key, value) entries in insertion
\* order (the cluster's node names are unique, so no key is inserted twice)
PodSpecsOf(nodelist, imagelist) ==
    [k \in 1..Len(nodelist) |->
        [node |-> nodelist[k],
         specs |-> [i \in 1..Len(imagelist) |->
                        _build_pod_spec(imagelist[i], nodelist[k])]]]

\* speclist of _get_deletion_list: every spec of every node, in dict order
RECURSIVE AllSpecs(_)
AllSpecs(specs) ==
    IF Len(specs) = 0 THEN <<>> ELSE Head(specs).specs \o AllSpecs(Tail(specs))

\* specnames of _get_deletion_list
SpecNames(specs) ==
    LET speclist == AllSpecs(specs)
    IN  [i \in 1..Len(speclist) |-> _derive_pod_name(speclist[i])]


(***************************************************************************)
(* Node selection.                                                         *)
(***************************************************************************)
\* dict.get(key): "" stands for None
Get(labels, key) == IF key \in DOMAIN labels THEN labels[key] ELSE ""

\* reject_by_label that knows the Lab label only
reject_by_label_lab_only(node, env) ==
    IF ~env.RESTRICT_LAB_NODES THEN FALSE
    ELSE IF DOMAIN node.labels = {} THEN FALSE
    ELSE Get(node.labels, "jupyterlab") # "ok"

\* Prepuller.reject_by_label
reject_by_label(node, env) ==
    IF ~env.RESTRICT_LAB_NODES THEN FALSE
    ELSE IF DOMAIN node.labels = {} THEN FALSE
    ELSE IF Get(node.labels, "jupyterlab") = "ok" THEN FALSE
    ELSE IF ~env.ALLOW_DASK_SPAWN THEN TRUE
    ELSE IF ~env.RESTRICT_DASK_NODES THEN FALSE
    ELSE IF Get(node.labels, "dask") = "ok" THEN FALSE
    ELSE TRUE

\* the loop of build_nodelist over v1nodelist.items
RECURSIVE SchedulableNames(_, _)
SchedulableNames(items, env) ==
    IF Len(items) = 0 THEN <<>>
    ELSE LET thing == Head(items)
             rest == SchedulableNames(Tail(items), env)
         IN  IF thing.unschedulable THEN rest
             ELSE IF "NoSchedule" \in thing.taints THEN rest
             ELSE IF reject_by_label(thing, env) THEN rest
             ELSE <<thing.name>> \o rest

(***************************************************************************)
(* The deletion list of _destroy_pods.                                     *)
(***************************************************************************)
\* list_namespaced_pod: the pods of the namespace, listed by name
PodList(ps) == SortedList(DOMAIN ps)

\* the loop of _get_deletion_list over podlist.items
RECURSIVE DeletionLoop(_, _, _, _)
DeletionLoop(podlist, ps, specnames, sel) ==
    IF Len(podlist) = 0 THEN <<>>
    ELSE LET podname == Head(podlist)
             phase == ps[podname].phase
             rest == DeletionLoop(Tail(podlist), ps, specnames, sel)
         IN  IF podname \in Range(specnames)
             THEN IF sel /\ phase # "Succeeded" /\ phase # "Failed"
                  THEN rest
                  ELSE <<podname>> \o rest
             ELSE rest

\* _get_deletion_list without the test of the pod name
_get_deletion_list_anyname(sel) ==
    DeletionLoop(PodList(pods), pods, PodList(pods), sel)

\* Prepuller._get_deletion_list
_get_deletion_list(sel) ==
    DeletionLoop(PodList(pods), pods, SpecNames(pod_specs), sel)


(***************************************************************************)
(* The repository scanner: its configuration.                              *)
(***************************************************************************)
\* class attributes of ScanRepo: the counts kept when the caller gives none
DefaultDailies == 3
DefaultWeeklies == 2
DefaultReleases == 1

\* ScanRepo.__init__: an argument replaces the class attribute when truthy
Configured(arg, default) == IF arg # 0 THEN arg ELSE default
ConfiguredSort(arg) == IF arg # "" THEN arg ELSE "name"

\* nothing has been scanned: the class attributes data = {} and
\* _all_tags = [], which a new ScanRepo shares
NoData == [c \in {} |-> <<>>]
\* history of a scanner: the pages the current scan has requested, the
\* results it handed to _reduce_results, the candidate lists that call left,
\* how the scan ended ("" while none has ended), data and _all_tags when it
\* began, the registry when it began, and listing and outcome of the scan
\* before it
NoScans ==
    [requested |-> <<>>, reduced |-> <<>>, outcome |-> "",
     before |-> <<NoData, <<>>>>,
     candidates |-> [c \in {} |-> <<>>],
     upstream |-> <<>>,
     previous |-> [listing |-> <<>>, outcome |-> ""]]

\* a ScanRepo constructed without arguments that nobody uses
ScannerOff ==
    /\ registry = <<>>
    /\ ctor = [dailies |-> 0, weeklies |-> 0, releases |-> 0, sort_field |-> ""]
    /\ dailies = DefaultDailies
    /\ weeklies = DefaultWeeklies
    /\ releases = DefaultReleases
    /\ sort_field = "name"
    /\ data = NoData
    /\ _all_tags = <<>>
    /\ spc = "idle"
    /\ page = 0
    /\ results = <<>>
    /\ all_tags = <<>>
    /\ rpc = "idle"
    /\ rdata = NoData
    /\ rtags = <<>>
    /\ shist = NoScans

\* Reaper.__init__: what it keeps of each category unless told otherwise
DefaultKeepExperimentals == 10
DefaultKeepDailies == 15
DefaultKeepWeeklies == 78

\* extract_image_info has not been called
NoInfo == [called |-> FALSE, raised |-> "", ls |-> <<>>, ldescs |-> <<>>]
\* the class attribute _categorized_tags as the class body leaves it
NoCategorizedTags == [weekly |-> <<>>, daily |-> <<>>, experimental |-> <<>>]
\* history of a reaper: the calls made so far; whether reap() was among
\* them; the map when the reaper was constructed; the DELETE requests sent
\* so far; and of the deletion step taken last: its tag, the status of each
\* DELETE it sent, whether it obtained a token, and how it ended
NoStep ==
    [tag |-> <<>>, statuses |-> <<>>, asked |-> FALSE, token |-> FALSE,
     raised |-> ""]
NoReaps ==
    [calls |-> 0, reaped |-> FALSE, scanned |-> <<>>, sent |-> 0,
     attempted |-> <<>>, last |-> NoStep]

\* a Reaper constructed without arguments that nobody uses
ReaperOff ==
    /\ info = NoInfo
    /\ _results_map = <<>>
    /\ _categorized_tags = NoCategorizedTags
    /\ reapable = <<>>
    /\ keep_experimentals = DefaultKeepExperimentals
    /\ keep_dailies = DefaultKeepDailies
    /\ keep_weeklies = DefaultKeepWeeklies
    /\ dry_run = FALSE
    /\ registry_url = ""
    /\ kpc = "idle"
    /\ ktags = <<>>
    /\ kidx = 0
    /\ khist = NoReaps

\* history of _sync_scan: the sleeps it has taken, and whether the scan
\* had completed when it was called and when it ended
NoWaits == [sleeps |-> <<>>, ready_at_call |-> FALSE, ready_at_end |-> FALSE]

\* an options form manager that nobody uses
FormOff ==
    /\ scan_cfg = [initial_scan_interval |-> 1, max_scan_interval |-> 1,
                   max_scan_delay |-> 1]
    /\ last_updated = "epoch"
    /\ fpc = "idle"
    /\ delay_interval = 0
    /\ delay = 0
    /\ fhist = NoWaits

\* the two Prepuller objects of the constructor's model
Instances == {1, 2}

\* a Prepuller object before __init__ has run on it
NewInstance == [state |-> "new", list |-> <<>>, images |-> <<>>]

\* no Prepuller has been constructed beside the one of the run
CtorOff ==
    /\ class_images = <<>>
    /\ inst = [i \in Instances |-> NewInstance]

\* the pods a namespace can hold: "dask-1", "dask" and "nb"
DaskPod == <<"d", "a", "s", "k", "-", "1">>
DaskLikePod == <<"d", "a", "s", "k">>
LabPod == <<"n", "b">>
PodNames == {DaskPod, DaskLikePod, LabPod}

\* a namespace manager that nobody uses
NsOff ==
    /\ namespace = "default"
    /\ ns_exists = TRUE
    /\ ns_pods = [p \in PodNames |-> "absent"]
    /\ npc = "idle"
    /\ ns_podlist = [p \in {} |-> "absent"]
    /\ nhist = [p \in {} |-> "absent"]

\* a request that carries nothing
NoRequest ==
    [header |-> "", param |-> FALSE, cookie |-> FALSE, expired |-> FALSE,
     user |-> "u", groups |-> {}]

\* a login handler that has served no request
JwtOff ==
    /\ cilogon_allowlist = {}
    /\ cilogon_denylist = {}
    /\ auth_states = {}
    /\ login_cookies = {}
    /\ jreq = NoRequest
    /\ response = 0

\* the components modelled on their own, unused
LateOff ==
    /\ CtorOff
    /\ NsOff
    /\ JwtOff

\* the components beside prepuller, scanner and reaper, unused
ExtraOff ==
    /\ FormOff
    /\ LateOff

(***************************************************************************)
(* Initial states: a Prepuller has just been constructed.                  *)
(***************************************************************************)
\* a schedulable node without taints or labels
PlainNode(name) ==
    [name |-> name, unschedulable |-> FALSE, taints |-> {}, labels |-> NoLabels]

\* a node tainted NoSchedule
TaintedNode(name) ==
    [name |-> name, unschedulable |-> FALSE, taints |-> {"NoSchedule"},
     labels |-> NoLabels]

\* list_node() lists the nodes by name
RECURSIVE NodeListing(_)
NodeListing(S) ==
    IF S = {} THEN <<>>
    ELSE LET m == CHOOSE x \in S : \A y \in S \ {x} : StrLess(x.name, y.name)
         IN  <<m>> \o NodeListing(S \ {m})

\* the clusters of the runs: the tainted node "a-2", the plain node "a-1"
\* and further plain nodes, up to MaxNodes plain ones
Clusters ==
    {NodeListing({TaintedNode(NodeA2)} \cup {PlainNode(n) : n \in S}) :
        S \in {T \in SUBSET {NodeA1, NodeB1, NodeB2} :
                  NodeA1 \in T /\ Cardinality(T) <= MaxNodes}}

\* the image sets of the runs: none, or "o/n:d_1" and further images
ImageSets ==
    {T \in SUBSET ImagePool :
        (T # {} => ImgD_1 \in T) /\ Cardinality(T) <= MaxImages}

\* the image lists a constructed Prepuller may hold: deduplicated and sorted
ImageLists == {SortedList(S) : S \in ImageSets}

\* os.environ without any of the node restriction switches
NoRestrictions ==
    [RESTRICT_LAB_NODES |-> FALSE, ALLOW_DASK_SPAWN |-> FALSE,
     RESTRICT_DASK_NODES |-> FALSE]

\* last_op: the method the main thread entered last; built_from: the lists
\* the last build_pod_specs read; rebuilt: that call found pod_specs already
\* built from the same lists; blocker: the node of the pod whose name made a
\* worker's create_namespaced_pod fail
NoHistory ==
    [last_op |-> "", built_from |-> <<>>, rebuilt |-> FALSE,
     blocker |-> [n \in NodeNames |-> <<>>]]

Init ==
    /\ cluster_nodes \in Clusters
    /\ environ = NoRestrictions
    /\ pods = [p \in {ForeignPod} |->
                  [phase |-> "Succeeded", node |-> NodeA2, mine |-> FALSE]]
    /\ nodes = <<>>
    /\ images \in ImageLists
    /\ pod_specs = <<>>
    /\ timeout \in Timeouts
    /\ clock = 0
    /\ mpc = "idle"
    /\ mi = 0
    /\ selective = FALSE
    /\ cleanup = <<>>
    /\ wpc = [n \in NodeNames |-> "none"]
    /\ wspecs = [n \in NodeNames |-> <<>>]
    /\ widx = [n \in NodeNames |-> 0]
    /\ tries = [n \in NodeNames |-> 0]
    /\ wpod = [n \in NodeNames |-> <<>>]
    /\ wphase = [n \in NodeNames |-> ""]
    /\ wexc = [n \in NodeNames |-> ""]
    /\ errlog = {}
    /\ hist = NoHistory
    /\ ScannerOff
    /\ ReaperOff
    /\ ExtraOff

(***************************************************************************)
(* The main thread.  One prepull invocation: the lists and the pod specs   *)
(* are set up, run_pods runs once over specs built from the current lists, *)
(* and completed pods are cleaned afterwards.                              *)
(***************************************************************************)
SetupOps == {"", "build_nodelist", "update_images_from_repo", "build_pod_specs"}

\* build_nodelist without its three exclusions
build_nodelist_all ==
    /\ mpc = "idle"
    /\ hist.last_op \in SetupOps
    /\ nodes' = [i \in 1..Len(cluster_nodes) |-> cluster_nodes[i].name]
    /\ hist' = [hist EXCEPT !.last_op = "build_nodelist"]
    /\ UNCHANGED <<cluster_vars, pods, images, pod_specs, timeout, clock, mpc,
                   mi, destroy_vars, worker_vars, errlog>>

\* Prepuller.build_nodelist
build_nodelist ==
    /\ mpc = "idle"
    /\ hist.last_op \in SetupOps
    /\ nodes' = SchedulableNames(cluster_nodes, environ)
    /\ hist' = [hist EXCEPT !.last_op = "build_nodelist"]
    /\ UNCHANGED <<cluster_vars, pods, images, pod_specs, timeout, clock, mpc,
                   mi, destroy_vars, worker_vars, errlog>>

\* Prepuller.update_images_from_repo, the repository scan yielding scan_imgs
update_images_from_repo(scan_imgs) ==
    /\ mpc = "idle"
    /\ hist.last_op \in SetupOps
    /\ Range(images) \cup scan_imgs \in ImageSets
    /\ images' = SortedList(Range(images) \cup scan_imgs)
    /\ hist' = [hist EXCEPT !.last_op = "update_images_from_repo"]
    /\ UNCHANGED <<cluster_vars, pods, nodes, pod_specs, timeout, clock, mpc,
                   mi, destroy_vars, worker_vars, errlog>>

\* build_pod_specs adding to the specs it finds instead of replacing them
build_pod_specs_accumulate ==
    /\ mpc = "idle"
    /\ hist.last_op \in SetupOps
    /\ Len(nodes) * Len(images) <= MaxPods
    /\ pod_specs' = pod_specs \o PodSpecsOf(nodes, images)
    /\ hist' = [hist EXCEPT !.last_op = "build_pod_specs",
                            !.built_from = <<nodes, images>>,
                            !.rebuilt = (hist.built_from = <<nodes, images>>)]
    /\ UNCHANGED <<cluster_vars, pods, nodes, images, timeout, clock, mpc, mi,
                   destroy_vars, worker_vars, errlog>>

\* Prepuller.build_pod_specs
build_pod_specs ==
    /\ mpc = "idle"
    /\ hist.last_op \in SetupOps
    /\ Len(nodes) * Len(images) <= MaxPods
    /\ pod_specs' = PodSpecsOf(nodes, images)
    /\ hist' = [hist EXCEPT !.last_op = "build_pod_specs",
                            !.built_from = <<nodes, images>>,
                            !.rebuilt = (hist.built_from = <<nodes, images>>)]
    /\ UNCHANGED <<cluster_vars, pods, nodes, images, timeout, clock, mpc, mi,
                   destroy_vars, worker_vars, errlog>>

\* Prepuller._destroy_pods up to its first delete: the deletion list is taken
_destroy_pods(sel) ==
    /\ mpc' = "destroy"
    /\ selective' = sel
    /\ cleanup' = _get_deletion_list(sel)
    /\ mi' = 1

\* Prepuller.clean_completed_pods
clean_completed_pods ==
    /\ mpc = "idle"
    /\ hist.last_op \in {"run_pods", "clean_completed_pods"}
    /\ _destroy_pods(TRUE)
    /\ hist' = [hist EXCEPT !.last_op = "clean_completed_pods"]
    /\ UNCHANGED <<cluster_vars, pods, prepuller_vars, timeout, clock,
                   worker_vars, errlog>>

\* delete_namespaced_pod: the pod leaves the namespace
Without(ps, podname) == [q \in DOMAIN ps \ {podname} |-> ps[q]]

\* the loop of _destroy_pods: one delete_pod, or the end of the loop; a
\* selective call returns to its caller, the timeout handler's call is
\* followed by raise RuntimeError("Timed out"); delete_namespaced_pod
\* answers 404 for a pod that is gone
destroy_step ==
    /\ mpc = "destroy"
    /\ IF mi > Len(cleanup)
       THEN /\ mpc' = IF selective THEN "idle" ELSE "TimedOut"
            /\ UNCHANGED <<pods, mi>>
       ELSE IF cleanup[mi] \in DOMAIN pods
       THEN /\ pods' = Without(pods, cleanup[mi])
            /\ mi' = mi + 1
            /\ UNCHANGED mpc
       ELSE /\ mpc' = "ApiException"
            /\ UNCHANGED <<pods, mi>>
    /\ UNCHANGED <<cluster_vars, prepuller_vars, timeout, clock, destroy_vars,
                   worker_vars, errlog, hist>>

\* Prepuller.run_pods up to its first thread
run_pods ==
    /\ mpc = "idle"
    /\ hist.last_op = "build_pod_specs"
    /\ hist.built_from = <<nodes, images>>
    /\ mpc' = IF Len(pod_specs) = 0 THEN "idle" ELSE "spawn"
    /\ mi' = 1
    /\ hist' = [hist EXCEPT !.last_op = "run_pods", !.rebuilt = FALSE]
    /\ UNCHANGED <<cluster_vars, pods, prepuller_vars, timeout, clock,
                   destroy_vars, worker_vars, errlog>>

\* run_pods: Thread(target=run_pods_for_node, ...).start() for the next node
spawn_thread ==
    /\ mpc = "spawn"
    /\ LET node == pod_specs[mi].node
           list == pod_specs[mi].specs
       IN  /\ wspecs' = [wspecs EXCEPT ![node] = list]
           /\ widx' = [widx EXCEPT ![node] = 1]
           /\ wpc' = [wpc EXCEPT ![node] =
                         IF Len(list) = 0 THEN "finished" ELSE "start"]
    /\ IF mi = Len(pod_specs)
       THEN mpc' = "join" /\ mi' = 1
       ELSE mpc' = "spawn" /\ mi' = mi + 1
    /\ UNCHANGED <<cluster_vars, pods, prepuller_vars, timeout, clock,
                   destroy_vars, tries, wpod, wphase, wexc, errlog, hist>>

\* the thread of a node has ended
Ended(node) == wpc[node] \in {"finished", "crashed"}

\* join() returning whether or not the thread has ended
join_thread_nowait ==
    /\ mpc = "join"
    /\ IF mi = Len(pod_specs)
       THEN mpc' = "idle" /\ mi' = mi
       ELSE mpc' = "join" /\ mi' = mi + 1
    /\ UNCHANGED <<cluster_vars, pods, prepuller_vars, timeout, clock,
                   destroy_vars, worker_vars, errlog, hist>>

\* run_pods: thd.join() returns for the next thread, which has ended
join_thread ==
    /\ mpc = "join"
    /\ Ended(pod_specs[mi].node)
    /\ IF mi = Len(pod_specs)
       THEN mpc' = "idle" /\ mi' = mi
       ELSE mpc' = "join" /\ mi' = mi + 1
    /\ UNCHANGED <<cluster_vars, pods, prepuller_vars, timeout, clock,
                   destroy_vars, worker_vars, errlog, hist>>

(***************************************************************************)
(* The worker threads: run_pods_for_node(node, speclist).  An exception    *)
(* that leaves run_pods_for_node ends the thread.                          *)
(***************************************************************************)
\* wait_for_pod's poll budget as run_pods_for_node calls it
max_tries == MaxTries

\* the worker's state when an exception ends its thread
Crash(n, exc) ==
    /\ wpc' = [wpc EXCEPT ![n] = "crashed"]
    /\ wexc' = [wexc EXCEPT ![n] = exc]

\* Prepuller.start_single_pod: create_namespaced_pod answers 409 Conflict
\* when the namespace holds a pod of that name
start_single_pod(n) ==
    /\ wpc[n] = "start"
    /\ LET spec == wspecs[n][widx[n]]
           name == _derive_pod_name(spec)
       IN  IF name \in DOMAIN pods
           THEN /\ Crash(n, "Conflict")
                /\ hist' = [hist EXCEPT !.blocker[n] = pods[name].node]
                /\ UNCHANGED <<pods, wpod, tries>>
           ELSE /\ pods' = [q \in DOMAIN pods \cup {name} |->
                              IF q = name
                              THEN [phase |-> "Pending",
                                    node |-> spec.node_name, mine |-> TRUE]
                              ELSE pods[q]]
                /\ wpod' = [wpod EXCEPT ![n] = name]
                /\ tries' = [tries EXCEPT ![n] = 1]
                /\ wpc' = [wpc EXCEPT ![n] = "poll"]
                /\ UNCHANGED <<wexc, hist>>
    /\ UNCHANGED <<cluster_vars, prepuller_vars, timeout, clock, mpc, mi,
                   destroy_vars, wspecs, widx, wphase, errlog>>

\* wait_for_pod giving up on the pod without raising: at the end of the
\* poll budget the worker goes on to its next spec and the pod stays
poll_pod_giveup(n) ==
    /\ wpc[n] = "poll"
    /\ IF wpod[n] \notin DOMAIN pods
       THEN /\ Crash(n, "NotFound")
            /\ UNCHANGED <<tries, wphase, errlog, widx>>
       ELSE LET phase == pods[wpod[n]].phase
            IN  IF phase \in {"Failed", "Succeeded"}
                THEN /\ wphase' = [wphase EXCEPT ![n] = phase]
                     /\ errlog' = IF phase = "Failed"
                                  THEN errlog \cup {<<"failed", wpod[n]>>}
                                  ELSE errlog
                     /\ wpc' = [wpc EXCEPT ![n] = "delete"]
                     /\ UNCHANGED <<tries, wexc, widx>>
                ELSE IF tries[n] >= max_tries
                THEN /\ widx' = [widx EXCEPT ![n] = @ + 1]
                     /\ wpc' = [wpc EXCEPT ![n] =
                                   IF widx[n] >= Len(wspecs[n]) THEN "finished"
                                   ELSE "start"]
                     /\ wphase' = [wphase EXCEPT ![n] = phase]
                     /\ errlog' = errlog \cup {<<"did not complete", wpod[n]>>}
                     /\ UNCHANGED <<tries, wexc>>
                ELSE /\ tries' = [tries EXCEPT ![n] = @ + 1]
                     /\ wphase' = [wphase EXCEPT ![n] = phase]
                     /\ UNCHANGED <<wpc, wexc, errlog, widx>>
    /\ UNCHANGED <<cluster_vars, pods, prepuller_vars, timeout, clock, mpc, mi,
                   destroy_vars, wspecs, wpod, hist>>

\* wait_for_pod testing the budget with > instead of >=: one read more
poll_pod_onemore(n) ==
    /\ wpc[n] = "poll"
    /\ IF wpod[n] \notin DOMAIN pods
       THEN /\ Crash(n, "NotFound")
            /\ UNCHANGED <<tries, wphase, errlog>>
       ELSE LET phase == pods[wpod[n]].phase
            IN  IF phase \in {"Failed", "Succeeded"}
                THEN /\ wphase' = [wphase EXCEPT ![n] = phase]
                     /\ errlog' = IF phase = "Failed"
                                  THEN errlog \cup {<<"failed", wpod[n]>>}
                                  ELSE errlog
                     /\ wpc' = [wpc EXCEPT ![n] = "delete"]
                     /\ UNCHANGED <<tries, wexc>>
                ELSE IF tries[n] > max_tries
                THEN /\ Crash(n, "RuntimeError")
                     /\ wphase' = [wphase EXCEPT ![n] = phase]
                     /\ errlog' = errlog \cup {<<"did not complete", wpod[n]>>}
                     /\ UNCHANGED tries
                ELSE /\ tries' = [tries EXCEPT ![n] = @ + 1]
                     /\ wphase' = [wphase EXCEPT ![n] = phase]
                     /\ UNCHANGED <<wpc, wexc, errlog>>
    /\ UNCHANGED <<cluster_vars, pods, prepuller_vars, timeout, clock, mpc, mi,
                   destroy_vars, wspecs, widx, wpod, hist>>

\* wait_for_pod: one turn of the loop: read the pod, then leave the loop for
\* the delete, raise, or sleep and count the try
poll_pod(n) ==
    /\ wpc[n] = "poll"
    /\ IF wpod[n] \notin DOMAIN pods
       THEN /\ Crash(n, "NotFound")
            /\ UNCHANGED <<tries, wphase, errlog>>
       ELSE LET phase == pods[wpod[n]].phase
            IN  IF phase \in {"Failed", "Succeeded"}
                THEN /\ wphase' = [wphase EXCEPT ![n] = phase]
                     /\ errlog' = IF phase = "Failed"
                                  THEN errlog \cup {<<"failed", wpod[n]>>}
                                  ELSE errlog
                     /\ wpc' = [wpc EXCEPT ![n] = "delete"]
                     /\ UNCHANGED <<tries, wexc>>
                ELSE IF tries[n] >= max_tries
                THEN /\ Crash(n, "RuntimeError")
                     /\ wphase' = [wphase EXCEPT ![n] = phase]
                     /\ errlog' = errlog \cup {<<"did not complete", wpod[n]>>}
                     /\ UNCHANGED tries
                ELSE /\ tries' = [tries EXCEPT ![n] = @ + 1]
                     /\ wphase' = [wphase EXCEPT ![n] = phase]
                     /\ UNCHANGED <<wpc, wexc, errlog>>
    /\ UNCHANGED <<cluster_vars, pods, prepuller_vars, timeout, clock, mpc, mi,
                   destroy_vars, wspecs, widx, wpod, hist>>

\* a Failed pod ending the worker instead of being deleted
delete_and_next_abort(n) ==
    /\ wpc[n] = "delete"
    /\ IF wpod[n] \notin DOMAIN pods
       THEN /\ Crash(n, "NotFound")
            /\ UNCHANGED <<pods, widx>>
       ELSE IF wphase[n] = "Failed"
       THEN /\ Crash(n, "RuntimeError")
            /\ UNCHANGED <<pods, widx>>
       ELSE /\ pods' = Without(pods, wpod[n])
            /\ widx' = [widx EXCEPT ![n] = @ + 1]
            /\ wpc' = [wpc EXCEPT ![n] =
                          IF widx[n] >= Len(wspecs[n]) THEN "finished"
                          ELSE "start"]
            /\ UNCHANGED wexc
    /\ UNCHANGED <<cluster_vars, prepuller_vars, timeout, clock, mpc, mi,
                   destroy_vars, wspecs, tries, wpod, wphase, errlog, hist>>

\* wait_for_pod: delete_pod and return; run_pods_for_node goes on to its
\* next spec or ends
delete_and_next(n) ==
    /\ wpc[n] = "delete"
    /\ IF wpod[n] \notin DOMAIN pods
       THEN /\ Crash(n, "NotFound")
            /\ UNCHANGED <<pods, widx>>
       ELSE /\ pods' = Without(pods, wpod[n])
            /\ widx' = [widx EXCEPT ![n] = @ + 1]
            /\ wpc' = [wpc EXCEPT ![n] =
                          IF widx[n] >= Len(wspecs[n]) THEN "finished"
                          ELSE "start"]
            /\ UNCHANGED wexc
    /\ UNCHANGED <<cluster_vars, prepuller_vars, timeout, clock, mpc, mi,
                   destroy_vars, wspecs, tries, wpod, wphase, errlog, hist>>

(***************************************************************************)
(* The environment: the cluster runs the pods, the clock runs.             *)
(***************************************************************************)
\* a pending pod of the namespace ends: its container exited, or it failed
PodEnds(p, phase) ==
    /\ p \in DOMAIN pods
    /\ pods[p].phase = "Pending"
    /\ pods' = [pods EXCEPT ![p].phase = phase]
    /\ UNCHANGED <<cluster_vars, prepuller_vars, timeout, clock, mpc, mi,
                   destroy_vars, worker_vars, errlog, hist>>

\* signal.alarm(args.timeout) in __init__, guarded by args.timeout >= 0:
\* alarm(0) schedules no alarm
AlarmScheduled == timeout >= 0 /\ timeout # 0

\* the main thread can still run Python code
MainAlive == mpc \notin {"TimedOut", "ApiException"}

\* a second passes while no alarm is due
Tick ==
    /\ timeout >= 0
    /\ clock <= timeout
    /\ MainAlive
    /\ ~(AlarmScheduled /\ clock + 1 = timeout)
    /\ clock' = clock + 1
    /\ UNCHANGED <<cluster_vars, pods, prepuller_vars, timeout, mpc, mi,
                   destroy_vars, worker_vars, errlog, hist>>

\* the alarm goes off: SIGALRM interrupts the main thread, which runs
\* Prepuller._timeout_handler and never returns to what it was doing
_timeout_handler ==
    /\ AlarmScheduled
    /\ clock + 1 = timeout
    /\ MainAlive
    /\ clock' = clock + 1
    /\ errlog' = errlog \cup {<<"did not complete in", <<>> >>}
    /\ _destroy_pods(FALSE)
    /\ hist' = [hist EXCEPT !.last_op = "_timeout_handler"]
    /\ UNCHANGED <<cluster_vars, pods, prepuller_vars, timeout, worker_vars>>

\* the prepuller's actions leave the scanner alone
Next ==
    /\ \/ build_nodelist
       \/ \E scan_imgs \in SUBSET ImagePool : update_images_from_repo(scan_imgs)
       \/ build_pod_specs
       \/ clean_completed_pods
       \/ destroy_step
       \/ run_pods
       \/ spawn_thread
       \/ join_thread
       \/ \E n \in NodeNames : start_single_pod(n)
       \/ \E n \in NodeNames : poll_pod(n)
       \/ \E n \in NodeNames : delete_and_next(n)
       \/ \E p \in DOMAIN pods, phase \in Terminal : PodEnds(p, phase)
       \/ Tick
       \/ _timeout_handler
    /\ UNCHANGED <<scanner_vars, other_vars>>

Spec == Init /\ [][Next]_vars


(***************************************************************************)
(* Properties of run_pods.                                                 *)
(***************************************************************************)
\* run_pods has returned to its caller
RunReturned == mpc = "idle" /\ hist.last_op = "run_pods"

\* the pods of the namespace that this run created for a node
InFlight(n) == {p \in DOMAIN pods : pods[p].mine /\ pods[p].node = n}

\* how many of its specs a worker has called start_single_pod for
Attempted(n) ==
    CASE wpc[n] = "none" -> 0
      [] wpc[n] = "start" -> widx[n] - 1
      [] wpc[n] = "finished" -> Len(wspecs[n])
      [] OTHER -> widx[n]

\* the nodes run_pods has started a thread for
Workers == {n \in NodeNames : wpc[n] # "none"}

\* C1: at no time are two pods that the run created on the same node both
\* in the namespace, and a worker about to create its next pod has none left.
C1_OnePodInFlightPerNode ==
    \A n \in NodeNames :
        /\ Cardinality(InFlight(n)) <= 1
        /\ wpc[n] = "start" => InFlight(n) = {}

\* two workers hold a pod at once, one of them for its second image
C1_Witness ==
    \E n, m \in NodeNames :
        /\ n # m
        /\ wpc[n] = "poll" /\ widx[n] = 2 /\ InFlight(n) # {}
        /\ wpc[m] = "poll" /\ InFlight(m) # {}

\* C2: a wait that exhausts its poll budget fails for that pod only: when
\* run_pods returns, a worker that had such a failure has still started a
\* pod for every image of its list.
C2_WorkerGoesOnAfterPollBudget ==
    RunReturned =>
        \A n \in Workers :
            wexc[n] = "RuntimeError" => Attempted(n) = Len(wspecs[n])

\* C3: when run_pods returns, no pod that the run created is left in the
\* namespace.
C3_NoPodOutlivesTheRun ==
    RunReturned => \A p \in DOMAIN pods : ~pods[p].mine

\* a worker ended for a reason of its own node: its own pod's poll budget,
\* or a name taken by a pod of its own node
OwnFailure(n) ==
    \/ wexc[n] = "RuntimeError"
    \/ wexc[n] = "Conflict" /\ hist.blocker[n] = n

\* C4: a poll-budget failure in one node's worker stops no other node's
\* worker: when run_pods returns, every other worker has finished its list
\* or has failed for a reason of its own node.
C4_FailureStaysOnItsNode ==
    RunReturned =>
        \A m, n \in Workers :
            (m # n /\ wexc[m] = "RuntimeError") =>
                (wpc[n] = "finished" \/ OwnFailure(n))

\* C5: run_pods returns only after every worker it started has ended,
\* finished or ended by an error; none is still creating, polling or
\* deleting a pod.
C5_JoinAll ==
    RunReturned =>
        /\ \A k \in 1..Len(pod_specs) : Ended(pod_specs[k].node)
        /\ \A n \in NodeNames : wpc[n] \notin {"start", "poll", "delete"}

\* run_pods has returned from two workers, one finished and one ended early
C5_Witness ==
    /\ RunReturned
    /\ \E n, m \in NodeNames :
        /\ wpc[n] = "finished" /\ Len(wspecs[n]) > 0
        /\ wpc[m] = "crashed"

\* C6: the worker's step after it has seen a terminal phase is the same for
\* Failed as for Succeeded: the pod is deleted and the worker goes on to its
\* next image (or ends after its last one); a Failed pod has been logged.
C6_FailedPodDeletedAndWorkerGoesOn ==
    [][\A n \in NodeNames :
        (wpc[n] = "delete" /\ wpc'[n] # "delete" /\ wpod[n] \in DOMAIN pods) =>
            /\ wpod[n] \notin DOMAIN pods'
            /\ widx'[n] = widx[n] + 1
            /\ wpc'[n] = IF widx[n] < Len(wspecs[n]) THEN "start" ELSE "finished"
            /\ wexc'[n] = ""
            /\ wphase[n] = "Failed" => <<"failed", wpod[n]>> \in errlog]_vars

\* the only worker is on its second image after its first pod Failed, was
\* logged and deleted
C6_Witness ==
    /\ Cardinality(Workers) = 1
    /\ \E n \in Workers :
        /\ widx[n] = 2
        /\ wpc[n] = "poll"
        /\ wpod[n] # _derive_pod_name(wspecs[n][1])
        /\ <<"failed", _derive_pod_name(wspecs[n][1])>> \in errlog
        /\ _derive_pod_name(wspecs[n][1]) \notin DOMAIN pods

(***************************************************************************)
(* Properties of the pod specs and of the cleanup.                         *)
(***************************************************************************)
\* the pod names of the current pod specs
MatrixNames == Range(SpecNames(pod_specs))

\* C7: build_pod_specs yields |nodes| x |images| specs, one per (node,
\* image) pair, and the pod names derived from them are pairwise distinct.
C7_SpecsPerPairWithDistinctNames ==
    hist.last_op = "build_pod_specs" =>
        LET all == AllSpecs(pod_specs)
        IN  /\ Len(all) = Len(nodes) * Len(images)
            /\ \A k \in 1..Len(nodes), i \in 1..Len(images) :
                \E j \in 1..Len(all) :
                    all[j].node_name = nodes[k] /\ all[j].image = images[i]
            /\ \A i, j \in 1..Len(all) :
                i # j => _derive_pod_name(all[i]) # _derive_pod_name(all[j])

\* C8: build_pod_specs called again with the node and image lists it read
\* the last time leaves the pod_specs mapping and the derived pod names as
\* they were.
C8_RebuildIsIdempotent ==
    [][(build_pod_specs /\ hist.built_from = <<nodes, images>>) =>
        /\ pod_specs' = pod_specs
        /\ SpecNames(pod_specs') = SpecNames(pod_specs)]_vars

\* build_pod_specs has just been called a second time on unchanged lists
\* of two nodes and two images
C8_Witness ==
    /\ hist.last_op = "build_pod_specs"
    /\ hist.rebuilt
    /\ Len(nodes) = 2
    /\ Len(images) = 2
    /\ Len(AllSpecs(pod_specs)) = 4

\* the pods a _destroy_pods(sel) call is to delete
Matching(sel) ==
    {p \in DOMAIN pods :
        p \in MatrixNames /\ (sel => pods[p].phase \in Terminal)}

C10_TimeoutFiresAndCleansFirst ==
    /\ (timeout >= 0 /\ clock > timeout) => hist.last_op = "_timeout_handler"
    /\ mpc = "TimedOut" => mi > Len(cleanup)


(***************************************************************************)
(* Node selection on labelled, tainted and cordoned nodes.                 *)
(***************************************************************************)
\* the node names in listing order
SortedNames == SortedList(NodeNames)

\* clusters of up to MaxNodes nodes; every node may be cordoned, tainted
\* and labelled in every way
LabelledClusters ==
    UNION {{c \in [1..k -> NodeRecords] :
               \A i \in 1..k : c[i].name = SortedNames[i]} : k \in 1..MaxNodes}

\* os.environ with every setting of the node restriction switches
Environs ==
    [RESTRICT_LAB_NODES : BOOLEAN, ALLOW_DASK_SPAWN : BOOLEAN,
     RESTRICT_DASK_NODES : BOOLEAN]

\* a constructed Prepuller without images that nobody uses
PrepullerParked ==
    /\ pods = [p \in {ForeignPod} |->
                  [phase |-> "Succeeded", node |-> NodeA2, mine |-> FALSE]]
    /\ nodes = <<>>
    /\ images = <<>>
    /\ pod_specs = <<>>
    /\ timeout = -1
    /\ clock = 0
    /\ mpc = "idle"
    /\ mi = 0
    /\ selective = FALSE
    /\ cleanup = <<>>
    /\ wpc = [n \in NodeNames |-> "none"]
    /\ wspecs = [n \in NodeNames |-> <<>>]
    /\ widx = [n \in NodeNames |-> 0]
    /\ tries = [n \in NodeNames |-> 0]
    /\ wpod = [n \in NodeNames |-> <<>>]
    /\ wphase = [n \in NodeNames |-> ""]
    /\ wexc = [n \in NodeNames |-> ""]
    /\ errlog = {}
    /\ hist = NoHistory

\* a Prepuller has just been constructed, in any such cluster
InitNodes ==
    /\ cluster_nodes \in LabelledClusters
    /\ environ \in Environs
    /\ PrepullerParked
    /\ ScannerOff
    /\ ReaperOff
    /\ ExtraOff

NextNodes == build_nodelist /\ UNCHANGED <<scanner_vars, other_vars>>

SpecNodes == InitNodes /\ [][NextNodes]_vars

\* a node of the cluster that none of the three exclusions applies to
Eligible(thing) ==
    /\ ~thing.unschedulable
    /\ "NoSchedule" \notin thing.taints
    /\ ~reject_by_label(thing, environ)

\* C11: the node list that build_nodelist builds holds exactly the names of
\* the cluster nodes that are not unschedulable, carry no NoSchedule taint
\* and are not rejected by reject_by_label, each of them once.
C11_NodelistIsExactlyTheEligibleNodes ==
    hist.last_op = "build_nodelist" =>
        /\ Range(nodes) =
               {cluster_nodes[i].name :
                   i \in {j \in 1..Len(cluster_nodes) : Eligible(cluster_nodes[j])}}
        /\ \A i, j \in 1..Len(nodes) : nodes[i] = nodes[j] => i = j

\* a list has been built that kept a node and dropped another one for its
\* labels, with Lab and Dask nodes both restricted
C11_Witness ==
    /\ hist.last_op = "build_nodelist"
    /\ Len(nodes) >= 1
    /\ \E i \in 1..Len(cluster_nodes) :
          /\ ~cluster_nodes[i].unschedulable
          /\ "NoSchedule" \notin cluster_nodes[i].taints
          /\ reject_by_label(cluster_nodes[i], environ)
          /\ environ.RESTRICT_DASK_NODES
          /\ environ.ALLOW_DASK_SPAWN


(***************************************************************************)
(* The repository scanner: the upstream registry.                          *)
(***************************************************************************)
\* str.startswith
StartsWith(s, prefix) ==
    Len(s) >= Len(prefix) /\ SubSeq(s, 1, Len(prefix)) = prefix

\* tag names: "d1", "d2", "d_3", "w1", "r1", "exp", "latest", "x"
TagD1 == <<"d", "1">>
TagD2 == <<"d", "2">>
TagD_3 == <<"d", "_", "3">>
TagW1 == <<"w", "1">>
TagR1 == <<"r", "1">>
TagExp == <<"e", "x", "p">>
TagLatest == <<"l", "a", "t", "e", "s", "t">>
TagX == <<"x">>
TagPool == {TagD1, TagD2, TagD_3, TagW1, TagR1, TagExp, TagLatest, TagX}

\* the value of a decimal digit
Digit(c) ==
    CASE c = "1" -> 1
      [] c = "2" -> 2
      [] c = "3" -> 3
      [] OTHER -> 0

\* the entry of a tag in a page's "results": the older the tag, the smaller
\* its id and the earlier its last_updated (the second of a fixed minute,
\* as text with the zone letter)
UpstreamEntry(tag) ==
    LET age == CASE tag = TagD1 -> "1" [] tag = TagD2 -> "2" [] tag = TagD_3 -> "3"
                 [] tag = TagW1 -> "1" [] tag = TagR1 -> "2" [] tag = TagExp -> "3"
                 [] tag = TagLatest -> "3" [] OTHER -> "1"
    IN  [name |-> tag, id |-> Digit(age), full_size |-> Len(tag),
         last_updated |-> <<age, "Z">>]

\* the listings a registry may hold: up to MaxTags entries in any order,
\* the same tag possibly listed twice
Listings ==
    UNION {[1..k -> {UpstreamEntry(t) : t \in TagPool}] : k \in 0..MaxTags}

\* the registry serves its listing in pages of one or two entries
PageSizes == {1, 2}

\* the last page either has no "next" key or an empty one
Ends == {"absent", "empty"}

\* no page of the registry is out of order
Up == [page |-> 0, status |-> "ok"]

\* number of pages of a listing
NumPages(reg) ==
    IF Len(reg.listing) = 0 THEN 1
    ELSE (Len(reg.listing) + reg.page_size - 1) \div reg.page_size

\* what the registry answers to _get_url(page=p): the request fails
\* ("unreachable"), or a body arrives that is no JSON ("garbage") or one
\* that is ("ok") and holds the page's results and its next cursor
Response(reg, p) ==
    IF p = reg.down.page THEN
        [status |-> reg.down.status, results |-> <<>>, next |-> "absent"]
    ELSE IF p > NumPages(reg) THEN
        [status |-> "unreachable", results |-> <<>>, next |-> "absent"]
    ELSE LET first == (p - 1) * reg.page_size + 1
             last == IF p * reg.page_size < Len(reg.listing)
                     THEN p * reg.page_size ELSE Len(reg.listing)
         IN  [status |-> "ok",
              results |-> SubSeq(reg.listing, first, last),
              next |-> IF p < NumPages(reg) THEN "url" ELSE reg.end]

\* the registries of the scans, all pages in order
Registries ==
    {[listing |-> l, page_size |-> s, end |-> e, down |-> Up] :
        l \in Listings, s \in PageSizes, e \in Ends}


(***************************************************************************)
(* The repository scanner: _reduce_results.                                *)
(***************************************************************************)
\* ScanRepo._convert_time: a trailing "Z" becomes "UTC" and strptime reads
\* the text; the datetime is the second it names
_convert_time(ts) ==
    LET t == IF Last(ts) = "Z"
             THEN SubSeq(ts, 1, Len(ts) - 1) \o <<"U", "T", "C">> ELSE ts
    IN  Digit(t[1])

\* the value _reduce_results stores under a tag's name
ReducedEntry(res) ==
    [name |-> res.name, id |-> res.id, size |-> res.full_size,
     updated |-> _convert_time(res.last_updated)]

\* the keys of reduced_results in dict order: each name at the place of
\* its first occurrence
RECURSIVE DictKeys(_, _)
DictKeys(res, seen) ==
    IF Len(res) = 0 THEN <<>>
    ELSE IF Head(res).name \in seen THEN DictKeys(Tail(res), seen)
    ELSE <<Head(res).name>> \o DictKeys(Tail(res), seen \cup {Head(res).name})

\* the value of a key of reduced_results: the last result of that name
DictValue(res, name) ==
    LET last == CHOOSE i \in 1..Len(res) :
                   /\ res[i].name = name
                   /\ \A j \in (i + 1)..Len(res) : res[j].name # name
    IN  ReducedEntry(res[last])

\* the category without the test for "exp"
Category_noexp(name) ==
    IF StartsWith(name, <<"r">>) THEN "release"
    ELSE IF StartsWith(name, <<"w">>) THEN "weekly"
    ELSE IF StartsWith(name, <<"d">>) THEN "daily"
    ELSE IF StartsWith(name, <<"l", "a", "t", "e", "s", "t">>) THEN "latest"
    ELSE "other"

\* the candidate list that _reduce_results appends a name to
Category(name) ==
    IF StartsWith(name, <<"r">>) THEN "release"
    ELSE IF StartsWith(name, <<"w">>) THEN "weekly"
    ELSE IF StartsWith(name, <<"d">>) THEN "daily"
    ELSE IF StartsWith(name, <<"e", "x", "p">>) THEN "experimental"
    ELSE IF StartsWith(name, <<"l", "a", "t", "e", "s", "t">>) THEN "latest"
    ELSE "other"

\* the candidate lists after the categorising loop: entries, but bare
\* names in o_candidates
Candidates(res) ==
    LET keys == DictKeys(res, {})
        In(c) == LET Test(k) == Category(k) = c IN SelectSeq(keys, Test)
        Entries(c) == [i \in 1..Len(In(c)) |-> DictValue(res, In(c)[i])]
    IN  [release |-> Entries("release"), weekly |-> Entries("weekly"),
         daily |-> Entries("daily"), experimental |-> Entries("experimental"),
         latest |-> Entries("latest"), other |-> In("other")]

\* imgorder: latest, experimental, then displayorder (daily, weekly,
\* release); extending it by the still empty o_candidates adds nothing
imgorder == <<"latest", "experimental", "daily", "weekly", "release">>

\* list.sort(key=lambda x: x[field], reverse=True): descending and stable
RECURSIVE SortDesc(_, _)
SortDesc(clist, field) ==
    IF Len(clist) = 0 THEN <<>>
    ELSE LET x == clist[Len(clist)]
             front == SortDesc(SubSeq(clist, 1, Len(clist) - 1), field)
             Before(y) == y[field] >= x[field]
             After(y) == y[field] < x[field]
         IN  SelectSeq(front, Before) \o <<x>> \o SelectSeq(front, After)

\* _sort_images_by_name files a name under newstyle
NewStyle(name) ==
    /\ FindFrom(name, "_", 1) # 0
    /\ ~StartsWith(name, <<"l", "a", "t", "e", "s", "t", "_">>)

\* _sort_images_by_name(clist) raises TypeError when clist holds a
\* newstyle entry: format_version is called with one list instead of
\* major, minor and patch, and newstyle["semver"] indexes a list by a str
SortByNameRaises(clist) == \E i \in 1..Len(clist) : NewStyle(clist[i].name)

\* the sorting loop: with another sort field each list of imgorder is sorted
\* in place; with "name" the value _sort_images_by_name returns is bound
\* to the loop variable and the lists stay as they are
Sorted(cands, field) ==
    IF field = "name" THEN cands
    ELSE [c \in DOMAIN cands |->
             IF c = "other" THEN cands[c] ELSE SortDesc(cands[c], field)]

\* seq[:n] for n >= 0
Take(seq, n) == IF Len(seq) <= n THEN seq ELSE SubSeq(seq, 1, n)

\* the names of the entries of the lists of an order, concatenated
RECURSIVE NamesIn(_, _)
NamesIn(cands, order) ==
    IF Len(order) = 0 THEN <<>>
    ELSE [i \in 1..Len(cands[Head(order)]) |-> cands[Head(order)][i].name]
            \o NamesIn(cands, Tail(order))

\* what a call of _reduce_results computes: whether it raises, the
\* candidate lists as the loops leave them, and the values of r and all_tags
Reduced(res, field, nd, nw, nr) ==
    LET cands == Candidates(res)
        raised == field = "name" /\
                    \E i \in 1..Len(imgorder) : SortByNameRaises(cands[imgorder[i]])
        sorted == IF raised THEN cands ELSE Sorted(cands, field)
    IN  [raised |-> raised,
         candidates |-> sorted,
         r |-> [daily |-> Take(sorted.daily, nd),
                weekly |-> Take(sorted.weekly, nw),
                release |-> Take(sorted.release, nr)],
         all_tags |-> NamesIn(sorted, imgorder)]


(***************************************************************************)
(* The repository scanner: scan() and its callers.                         *)
(***************************************************************************)
\* the counts a caller may pass: 0, which is also what passing none means
CountArgs == {0, 1}

\* the sort fields a caller may pass: none, or the update time
SortArgs == {"", "updated"}

\* the arguments of ScanRepo(...): one count for the three categories
CtorArgs ==
    {[dailies |-> n, weeklies |-> n, releases |-> n, sort_field |-> f] :
        n \in CountArgs, f \in SortArgs}

\* a ScanRepo has just been constructed
InitScan ==
    /\ cluster_nodes = <<>>
    /\ environ = NoRestrictions
    /\ PrepullerParked
    /\ registry \in Registries
    /\ ctor \in CtorArgs
    /\ dailies = Configured(ctor.dailies, DefaultDailies)
    /\ weeklies = Configured(ctor.weeklies, DefaultWeeklies)
    /\ releases = Configured(ctor.releases, DefaultReleases)
    /\ sort_field = ConfiguredSort(ctor.sort_field)
    /\ data = NoData
    /\ _all_tags = <<>>
    /\ spc = "idle"
    /\ page = 0
    /\ results = <<>>
    /\ all_tags = <<>>
    /\ rpc = "idle"
    /\ rdata = NoData
    /\ rtags = <<>>
    /\ shist = NoScans
    /\ ReaperOff
    /\ ExtraOff

\* everything that belongs to the prepuller
prepull_vars ==
    <<cluster_vars, pods, prepuller_vars, timeout, clock, mpc, mi, destroy_vars,
      worker_vars, errlog, hist>>

\* no scan is running
ScanIdle == spc \in {"idle", "done", "error"}

\* ScanRepo.scan is called: the locals are set up
scan_start ==
    /\ ScanIdle
    /\ spc' = "fetch"
    /\ page' = 1
    /\ results' = <<>>
    /\ shist' = [shist EXCEPT !.requested = <<>>, !.reduced = <<>>,
                              !.outcome = "", !.before = <<data, _all_tags>>,
                              !.upstream = registry,
                              !.previous = [listing |-> IF shist.upstream = <<>>
                                                        THEN <<>>
                                                        ELSE shist.upstream.listing,
                                            outcome |-> shist.outcome]]
    /\ UNCHANGED <<prepull_vars, registry, config_vars, data, _all_tags,
                   all_tags, reader_vars>>

\* one pass of scan's loop that reduces what it has when a page fails
scan_page_partial ==
    /\ spc = "fetch"
    /\ LET j == Response(registry, page)
       IN  /\ shist' = [shist EXCEPT !.requested = Append(@, page)]
           /\ IF j.status # "ok" THEN
                  /\ spc' = "reduce"
                  /\ UNCHANGED <<page, results>>
              ELSE
                  /\ results' = results \o j.results
                  /\ IF j.next \in {"absent", "empty"}
                     THEN spc' = "reduce" /\ page' = page
                     ELSE spc' = "fetch" /\ page' = page + 1
    /\ UNCHANGED <<prepull_vars, registry, config_vars, data, _all_tags,
                   all_tags, reader_vars>>

\* one pass of scan's loop that puts each page before the earlier ones
scan_page_reversed ==
    /\ spc = "fetch"
    /\ LET j == Response(registry, page)
       IN  /\ shist' = [shist EXCEPT
                           !.requested = Append(@, page),
                           !.outcome = IF j.status = "ok" THEN @ ELSE "ValueError"]
           /\ IF j.status # "ok" THEN
                  /\ spc' = "error"
                  /\ UNCHANGED <<page, results>>
              ELSE
                  /\ results' = j.results \o results
                  /\ IF j.next \in {"absent", "empty"}
                     THEN spc' = "reduce" /\ page' = page
                     ELSE spc' = "fetch" /\ page' = page + 1
    /\ UNCHANGED <<prepull_vars, registry, config_vars, data, _all_tags,
                   all_tags, reader_vars>>

\* one pass of scan's loop: the page is requested and decoded, its results
\* are appended, and the loop ends when the page names no next one; a failed
\* request and a body that is no JSON raise ValueError
scan_page ==
    /\ spc = "fetch"
    /\ LET j == Response(registry, page)
       IN  /\ shist' = [shist EXCEPT
                           !.requested = Append(@, page),
                           !.outcome = IF j.status = "ok" THEN @ ELSE "ValueError"]
           /\ IF j.status # "ok" THEN
                  /\ spc' = "error"
                  /\ UNCHANGED <<page, results>>
              ELSE
                  /\ results' = results \o j.results
                  /\ IF j.next \in {"absent", "empty"}
                     THEN spc' = "reduce" /\ page' = page
                     ELSE spc' = "fetch" /\ page' = page + 1
    /\ UNCHANGED <<prepull_vars, registry, config_vars, data, _all_tags,
                   all_tags, reader_vars>>

\* _reduce_results that appends to the lists self.data holds
_reduce_results_accumulate ==
    /\ spc = "reduce"
    /\ LET red == Reduced(results, sort_field, dailies, weeklies, releases)
       IN  /\ shist' = [shist EXCEPT
                           !.reduced = results,
                           !.candidates = red.candidates,
                           !.outcome = IF red.raised THEN "TypeError" ELSE @]
           /\ IF red.raised THEN
                  /\ spc' = "error"
                  /\ UNCHANGED <<data, all_tags>>
              ELSE
                  /\ spc' = "store_all_tags"
                  /\ data' = [c \in DOMAIN red.r |->
                                 (IF c \in DOMAIN data THEN data[c] ELSE <<>>)
                                    \o red.r[c]]
                  /\ all_tags' = red.all_tags
    /\ UNCHANGED <<prepull_vars, registry, config_vars, _all_tags, page,
                   results, reader_vars>>

\* ScanRepo._reduce_results up to its first store, self.data = r; a
\* TypeError raised in the sorting loop ends the scan before it
_reduce_results ==
    /\ spc = "reduce"
    /\ LET red == Reduced(results, sort_field, dailies, weeklies, releases)
       IN  /\ shist' = [shist EXCEPT
                           !.reduced = results,
                           !.candidates = red.candidates,
                           !.outcome = IF red.raised THEN "TypeError" ELSE @]
           /\ IF red.raised THEN
                  /\ spc' = "error"
                  /\ UNCHANGED <<data, all_tags>>
              ELSE
                  /\ spc' = "store_all_tags"
                  /\ data' = red.r
                  /\ all_tags' = red.all_tags
    /\ UNCHANGED <<prepull_vars, registry, config_vars, _all_tags, page,
                   results, reader_vars>>

\* the second store of _reduce_results, self._all_tags = all_tags; scan
\* returns
store_all_tags ==
    /\ spc = "store_all_tags"
    /\ _all_tags' = all_tags
    /\ spc' = "done"
    /\ shist' = [shist EXCEPT !.outcome = "ok"]
    /\ UNCHANGED <<prepull_vars, registry, config_vars, data, page, results,
                   all_tags, reader_vars>>

\* before the first scan or after a scan that went well, a page of the
\* registry goes out of order
upstream_breaks(p, status) ==
    /\ ScanIdle
    /\ shist.outcome \in {"", "ok"}
    /\ registry.down = Up
    /\ p \in 1..NumPages(registry)
    /\ registry' = [registry EXCEPT !.down = [page |-> p, status |-> status]]
    /\ UNCHANGED <<prepull_vars, config_vars, scan_vars, reader_vars, shist>>

\* after a scan that failed on it, the registry comes back
upstream_recovers ==
    /\ ScanIdle
    /\ shist.outcome = "ValueError"
    /\ registry.down # Up
    /\ registry' = [registry EXCEPT !.down = Up]
    /\ UNCHANGED <<prepull_vars, config_vars, scan_vars, reader_vars, shist>>

NextScan ==
    /\ \/ scan_start
       \/ scan_page
       \/ _reduce_results
       \/ store_all_tags
       \/ \E p \in 1..MaxTags, status \in {"unreachable", "garbage"} :
             upstream_breaks(p, status)
       \/ upstream_recovers
    /\ UNCHANGED other_vars

SpecScan == InitScan /\ [][NextScan]_vars


(***************************************************************************)
(* A reader thread beside the scanning thread.                             *)
(***************************************************************************)
\* between two scans a new tag appears at the head of the listing
upstream_push(tag) ==
    /\ ScanIdle
    /\ registry.down = Up
    /\ Len(registry.listing) < MaxTags
    /\ registry' = [registry EXCEPT !.listing = <<UpstreamEntry(tag)>> \o @]
    /\ UNCHANGED <<prepull_vars, config_vars, scan_vars, reader_vars, shist>>

\* the reader calls ScanRepo.get_data
reader_get_data ==
    /\ rpc \in {"idle", "done"}
    /\ rdata' = data
    /\ rpc' = "got_data"
    /\ UNCHANGED <<prepull_vars, registry, config_vars, scan_vars, rtags, shist>>

\* the reader calls ScanRepo.get_all_tags
reader_get_all_tags ==
    /\ rpc = "got_data"
    /\ rtags' = _all_tags
    /\ rpc' = "done"
    /\ UNCHANGED <<prepull_vars, registry, config_vars, scan_vars, rdata, shist>>

\* the scanning thread scans time and again while the reader reads; a scan
\* begins when the reader is not between its two calls, so that the calls
\* of a reader meet one scan at most
NextReaders ==
    /\ \/ scan_start /\ rpc # "got_data"
       \/ scan_page
       \/ _reduce_results
       \/ store_all_tags
       \/ \E tag \in TagPool : upstream_push(tag)
       \/ reader_get_data
       \/ reader_get_all_tags
    /\ UNCHANGED other_vars

SpecReaders == InitScan /\ [][NextReaders]_vars

\* C12: what a reader gets from get_data() and then get_all_tags() while a
\* scan runs is the pair the scanner held before that scan or the pair it
\* holds after it, never data of one and tags of the other.
C12_ReaderSeesOneScanResult ==
    [][reader_get_all_tags =>
          \/ <<rdata', rtags'>> = shist.before
          \/ <<rdata', rtags'>> =
                <<data, IF spc = "store_all_tags" THEN all_tags ELSE _all_tags>>]_vars


(***************************************************************************)
(* Properties of scan().                                                   *)
(***************************************************************************)
\* C13: when the request of a page fails or its body is no JSON, on the
\* first page or on a later one, scan() ends with an error and data and
\* _all_tags are what they were before the call.
C13_FailedScanLeavesResultIntact ==
    [][(scan_page /\ Response(registry, page).status # "ok") =>
          /\ spc' = "error"
          /\ shist'.outcome = "ValueError"
          /\ <<data', _all_tags'>> = shist.before]_vars

\* a scan that had stored tags before failed on its second page
C13_Witness ==
    /\ spc = "error"
    /\ shist.outcome = "ValueError"
    /\ Len(shist.requested) >= 2
    /\ _all_tags # <<>>
    /\ <<data, _all_tags>> = shist.before

\* the results of pages 1..n of a registry, in page order
RECURSIVE ResultsUpTo(_, _)
ResultsUpTo(reg, n) ==
    IF n = 0 THEN <<>>
    ELSE ResultsUpTo(reg, n - 1) \o Response(reg, n).results

\* C14: a scan requests the pages 1, 2, 3, ... in this order; one that
\* succeeds has stopped at the first page whose next cursor is absent or
\* empty and has reduced the results of the pages it fetched, in page order.
C14_PagesInOrderUntilNoNext ==
    /\ \A i \in 1..Len(shist.requested) : shist.requested[i] = i
    /\ shist.outcome = "ok" =>
          LET n == Len(shist.requested)
          IN  /\ n >= 1
              /\ \A i \in 1..(n - 1) : Response(shist.upstream, i).next = "url"
              /\ Response(shist.upstream, n).next \in {"absent", "empty"}
              /\ shist.reduced = ResultsUpTo(shist.upstream, n)

\* a scan over two pages with different tags has succeeded
C14_Witness ==
    /\ shist.outcome = "ok"
    /\ Len(shist.requested) >= 2
    /\ Len(shist.reduced) >= 2
    /\ shist.reduced[1] # shist.reduced[2]


(***************************************************************************)
(* Properties of the scan result.                                          *)
(***************************************************************************)
\* the categorising loop of the current scan has run
Categorised == spc \in {"store_all_tags", "done"} \/ shist.outcome = "TypeError"

\* the names scan() received from the registry
ScannedNames == {shist.reduced[i].name : i \in 1..Len(shist.reduced)}

\* a name begins with the given characters
HasPrefix(name, pre) ==
    Len(name) >= Len(pre) /\ \A i \in 1..Len(pre) : name[i] = pre[i]

\* the category a tag name belongs to by its prefix
PrefixCategory(name) ==
    CASE HasPrefix(name, <<"r">>) -> "release"
      [] HasPrefix(name, <<"w">>) -> "weekly"
      [] HasPrefix(name, <<"d">>) -> "daily"
      [] HasPrefix(name, <<"e", "x", "p">>) -> "experimental"
      [] HasPrefix(name, <<"l", "a", "t", "e", "s", "t">>) -> "latest"
      [] OTHER -> "other"

\* the names in a candidate list
CandidateNames(c) ==
    IF c = "other" THEN shist.candidates[c]
    ELSE [i \in 1..Len(shist.candidates[c]) |-> shist.candidates[c][i].name]

\* how often a value occurs in a sequence
Count(seq, x) == Cardinality({i \in 1..Len(seq) : seq[i] = x})

\* C15: every scanned tag is put in exactly one category, once, and the
\* category is the one of its name's prefix: r release, w weekly, d daily,
\* exp experimental, latest latest, anything else other.
C15_OneCategoryByPrefix ==
    Categorised =>
        \A name \in ScannedNames :
            \A c \in DOMAIN shist.candidates :
                Count(CandidateNames(c), name) =
                    IF c = PrefixCategory(name) THEN 1 ELSE 0

\* an experimental tag and a tag of no known prefix have been categorised
C15_Witness ==
    /\ Categorised
    /\ TagExp \in ScannedNames
    /\ TagX \in ScannedNames
    /\ Len(shist.candidates["experimental"]) = 1
    /\ Len(shist.candidates["other"]) = 1

\* a tag name in the new format
NewFormat(name) == FindFrom(name, "_", 1) # 0

\* the number a run of decimal digits stands for
RECURSIVE NumberOf(_)
NumberOf(digits) ==
    IF Len(digits) = 0 THEN 0
    ELSE 10 * NumberOf(SubSeq(digits, 1, Len(digits) - 1)) + Digit(Last(digits))

\* the version tuple of a new-format name: its components after the type
VersionTuple(name) ==
    LET components == Tail(Split(name, "_"))
    IN  [i \in 1..Len(components) |-> NumberOf(components[i])]

\* t < u for tuples of numbers
RECURSIVE TupleLess(_, _)
TupleLess(t, u) ==
    IF Len(u) = 0 THEN FALSE
    ELSE IF Len(t) = 0 THEN TRUE
    ELSE IF Head(t) # Head(u) THEN Head(t) < Head(u)
    ELSE TupleLess(Tail(t), Tail(u))

\* name a must not come after name b: a ranks strictly higher
NameOutranks(a, b) ==
    IF NewFormat(a) /\ NewFormat(b) THEN TupleLess(VersionTuple(b), VersionTuple(a))
    ELSE IF NewFormat(a) THEN TRUE
    ELSE IF NewFormat(b) THEN FALSE
    ELSE StrLess(b, a)

\* C16: with sort field name a scan sorts: afterwards each category lists
\* the new-format tags before the legacy ones, the new-format tags by
\* descending version tuple and the legacy tags by descending string.
C16_SortedByName ==
    sort_field = "name" =>
        /\ shist.outcome # "TypeError"
        /\ shist.outcome = "ok" =>
              \A c \in DOMAIN data :
                  \A i, j \in 1..Len(data[c]) :
                      i < j => ~NameOutranks(data[c][j].name, data[c][i].name)

\* the scanned entries of a category, as reduced
CategoryEntries(c) ==
    {DictValue(shist.reduced, name) :
        name \in {n \in ScannedNames : PrefixCategory(n) = c}}

\* entry a ranks strictly higher than entry b under the sort field
Outranks(a, b) ==
    IF sort_field = "name" THEN NameOutranks(a.name, b.name)
    ELSE a[sort_field] > b[sort_field]

\* the count the caller configured for a category
ConfiguredCount(c) ==
    CASE c = "daily" -> ctor.dailies
      [] c = "weekly" -> ctor.weeklies
      [] c = "release" -> ctor.releases

\* the smaller of two numbers
Min(a, b) == IF a <= b THEN a ELSE b

\* C17: after a scan each of daily, weekly and release holds
\* min(configured count, scanned tags of the category) entries, and no
\* scanned entry left out ranks higher than a kept one; for every
\* configured count, 0 included.
C17_KeepsConfiguredCountOfTopRanked ==
    shist.outcome = "ok" =>
        \A c \in {"daily", "weekly", "release"} :
            LET kept == Range(data[c])
            IN  /\ Len(data[c]) =
                      Min(ConfiguredCount(c), Cardinality(CategoryEntries(c)))
                /\ kept \subseteq CategoryEntries(c)
                /\ \A x \in kept, y \in CategoryEntries(c) \ kept : ~Outranks(y, x)

\* the number of entries kept in all categories of the scan result
RECURSIVE KeptIn(_)
KeptIn(cats) ==
    IF cats = {} THEN 0
    ELSE LET c == CHOOSE x \in cats : TRUE
         IN  Len(data[c]) + KeptIn(cats \ {c})

\* C18: after a successful scan get_all_tags() is as long as the scan
\* result has kept entries, all categories together.
C18_AllTagsAsLongAsKept ==
    shist.outcome = "ok" => Len(_all_tags) = KeptIn(DOMAIN data)

\* the place of a category in the display order
DisplayIndex(c) ==
    CASE c = "latest" -> 1
      [] c = "experimental" -> 2
      [] c = "daily" -> 3
      [] c = "weekly" -> 4
      [] c = "release" -> 5
      [] c = "other" -> 6

\* C19: after a successful scan get_all_tags() holds the name of every
\* scanned tag exactly once, other tags included, grouped in the display
\* order latest, experimental, daily, weekly, release, other.
C19_AllTagsHoldEveryTagInDisplayOrder ==
    shist.outcome = "ok" =>
        /\ \A name \in ScannedNames : Count(_all_tags, name) = 1
        /\ Range(_all_tags) \subseteq ScannedNames
        /\ \A i, j \in 1..Len(_all_tags) :
              i < j => DisplayIndex(PrefixCategory(_all_tags[i]))
                          <= DisplayIndex(PrefixCategory(_all_tags[j]))

\* C20: a scan that follows a successful scan of the same upstream listing
\* leaves data and _all_tags as that scan left them.
C20_RescanYieldsSameResult ==
    (/\ shist.outcome = "ok"
     /\ shist.previous.outcome = "ok"
     /\ shist.previous.listing = shist.upstream.listing)
        => <<data, _all_tags>> = shist.before

\* a second scan of the same listing has stored a result that keeps entries
C20_Witness ==
    /\ shist.outcome = "ok"
    /\ shist.previous.outcome = "ok"
    /\ shist.previous.listing = shist.upstream.listing
    /\ data["daily"] # <<>>
    /\ Len(_all_tags) >= 2
    /\ <<data, _all_tags>> = shist.before

(***************************************************************************)
(* extract_image_info: image names and descriptions of the kept tags.      *)
(***************************************************************************)
\* tag names: "d_1_2_3", "w_1_2", "r_1_2", "dx_1", "r130"
TagNewD == <<"d", "_", "1", "_", "2", "_", "3">>
TagNewW == <<"w", "_", "1", "_", "2">>
TagNewR == <<"r", "_", "1", "_", "2">>
TagDx == <<"d", "x", "_", "1">>
TagR130 == <<"r", "1", "3", "0">>

\* the tags a scan may have kept
InfoTags ==
    {TagD1, TagD_3, TagNewD, TagDx, TagW1, TagNewW, TagR1, TagNewR, TagR130}

\* the lists without repetition of up to MaxTags kept tags
TagLists ==
    {q \in UNION {[1..k -> InfoTags] : k \in 0..MaxTags} :
        \A i, j \in 1..Len(q) : i # j => q[i] # q[j]}

\* self.data after a scan that kept the tags of q: each under its category
KeptData(q) ==
    [c \in {"daily", "weekly", "release"} |->
        LET OfCategory(t) == Category(t) = c
            kept == SelectSeq(q, OfCategory)
        IN  [i \in 1..Len(kept) |-> ReducedEntry(UpstreamEntry(kept[i]))]]

\* owner and name the scanner was constructed with
repo_owner == <<"o">>
repo_name == <<"n">>

\* tag[a:b] for 0 <= a <= b
Slice(tag, a, b) ==
    IF a >= Len(tag) THEN <<>>
    ELSE SubSeq(tag, a + 1, IF b < Len(tag) THEN b ELSE Len(tag))

\* one pass of the loop body for a tag: the exception it raises ("" when
\* none), whether it assigns ld, and the value it assigns
DescribeTag(tag) ==
    LET components == IF FindFrom(tag, "_", 1) # 0 THEN Split(tag, "_")
                      ELSE <<>>
        n == Len(components)
        Ok(text) == [raised |-> "", assigned |-> TRUE, ld |-> text]
        Fails == [raised |-> "IndexError", assigned |-> FALSE, ld |-> <<>>]
        Skips == [raised |-> "", assigned |-> FALSE, ld |-> <<>>]
    IN  IF n > 0
        THEN CASE components[1] = <<"r">> ->
                    IF n < 3 THEN Fails
                    ELSE LET rpatch == IF n > 3 THEN components[4] ELSE <<>>
                             rrest == IF n > 4
                                      THEN Join(SubSeq(components, 5, n), "_")
                                      ELSE <<>>
                         IN  Ok(<<"Release ">> \o components[2] \o <<".">>
                                \o components[3]
                                \o (IF rpatch # <<>> THEN <<".">> \o rpatch
                                    ELSE <<>>)
                                \o (IF rrest # <<>> THEN <<".">> \o rrest
                                    ELSE <<>>))
               [] components[1] = <<"w">> ->
                    IF n < 3 THEN Fails
                    ELSE Ok(<<"Weekly ">> \o components[2] \o <<"_">>
                            \o components[3])
               [] components[1] = <<"d">> ->
                    IF n < 4 THEN Fails
                    ELSE Ok(<<"Daily ">> \o components[2] \o <<"_">>
                            \o components[3] \o <<"_">> \o components[4])
               [] OTHER -> Skips
        ELSE CASE tag[1] = "r" ->
                    Ok(<<"Release ">> \o Slice(tag, 1, 3) \o <<".">>
                       \o Slice(tag, 3, Len(tag)))
               [] tag[1] = "w" ->
                    Ok(<<"Weekly ">> \o Slice(tag, 1, 5) \o <<"_">>
                       \o Slice(tag, 5, Len(tag)))
               [] tag[1] = "d" ->
                    Ok(<<"Daily ">> \o Slice(tag, 1, 5) \o <<"_">>
                       \o Slice(tag, 5, 7) \o <<"_">>
                       \o Slice(tag, 7, Len(tag)))
               [] OTHER -> Skips

\* the loop over cs: ld keeps its value from one pass to the next, and is
\* unbound until a pass assigns it
RECURSIVE DescribeAll(_, _, _)
DescribeAll(cs, ld, ldescs) ==
    IF Len(cs) = 0 THEN [raised |-> "", ldescs |-> ldescs]
    ELSE LET d == DescribeTag(Head(cs).name)
             now == IF d.assigned THEN [bound |-> TRUE, text |-> d.ld] ELSE ld
         IN  IF d.raised # "" THEN [raised |-> d.raised, ldescs |-> <<>>]
             ELSE IF ~now.bound
             THEN [raised |-> "UnboundLocalError", ldescs |-> <<>>]
             ELSE DescribeAll(Tail(cs), now, Append(ldescs, now.text))

\* what extract_image_info() returns, or the exception it ends with
ExtractImageInfo(d) ==
    IF ~({"daily", "weekly", "release"} \subseteq DOMAIN d)
    THEN [called |-> TRUE, raised |-> "KeyError", ls |-> <<>>, ldescs |-> <<>>]
    ELSE LET cs == d["daily"] \o d["weekly"] \o d["release"]
             described == DescribeAll(cs, [bound |-> FALSE, text |-> <<>>], <<>>)
         IN  IF described.raised # ""
             THEN [called |-> TRUE, raised |-> described.raised,
                   ls |-> <<>>, ldescs |-> <<>>]
             ELSE [called |-> TRUE, raised |-> "",
                   ls |-> [i \in 1..Len(cs) |->
                             repo_owner \o <<"/">> \o repo_name \o <<":">>
                                \o cs[i].name],
                   ldescs |-> described.ldescs]

\* a caller asks for the image names and descriptions
extract_image_info ==
    /\ ~info.called
    /\ info' = ExtractImageInfo(data)
    /\ UNCHANGED <<prepull_vars, scanner_vars, reaper_vars, extra_vars>>

\* a scanner whose last scan kept the tags of some list
InitInfo ==
    /\ cluster_nodes = <<>>
    /\ environ = NoRestrictions
    /\ PrepullerParked
    /\ registry = <<>>
    /\ ctor = [dailies |-> 0, weeklies |-> 0, releases |-> 0, sort_field |-> ""]
    /\ dailies = DefaultDailies
    /\ weeklies = DefaultWeeklies
    /\ releases = DefaultReleases
    /\ sort_field = "name"
    /\ \E q \in TagLists :
          /\ data = KeptData(q)
          /\ _all_tags = q
    /\ spc = "idle"
    /\ page = 0
    /\ results = <<>>
    /\ all_tags = <<>>
    /\ rpc = "idle"
    /\ rdata = NoData
    /\ rtags = <<>>
    /\ shist = NoScans
    /\ ReaperOff
    /\ ExtraOff

NextInfo == extract_image_info

SpecInfo == InitInfo /\ [][NextInfo]_vars

\* the tags of data in the order extract_image_info visits them
KeptNames ==
    LET cs == data["daily"] \o data["weekly"] \o data["release"]
    IN  [i \in 1..Len(cs) |-> cs[i].name]

\* the tag has one of the shapes that are described: new style with a first
\* component r, w or d, or legacy with a first character r, w or d
RecognisedShape(tag) ==
    IF \E i \in 1..Len(tag) : tag[i] = "_"
    THEN \/ HasPrefix(tag, <<"r", "_">>)
         \/ HasPrefix(tag, <<"w", "_">>)
         \/ HasPrefix(tag, <<"d", "_">>)
    ELSE \/ HasPrefix(tag, <<"r">>)
         \/ HasPrefix(tag, <<"w">>)
         \/ HasPrefix(tag, <<"d">>)

\* C21: extract_image_info() raises nothing whatever tags were kept, returns
\* as many descriptions as image names, one image name per kept tag, and
\* describes a tag of no recognised shape by the empty description.
C21_ExtractImageInfoNeverFails ==
    info.called =>
        /\ info.raised = ""
        /\ Len(info.ls) = Len(KeptNames)
        /\ Len(info.ldescs) = Len(info.ls)
        /\ \A i \in 1..Len(info.ldescs) :
              ~RecognisedShape(KeptNames[i]) => info.ldescs[i] = <<>>

(***************************************************************************)
(* Release tags: a final release beside its release candidates.            *)
(***************************************************************************)
\* tag name "r130rc2"
TagR130rc2 == <<"r", "1", "3", "0", "r", "c", "2">>

\* the listings of a registry that holds release tags only
ReleaseListings ==
    UNION {[1..k -> {UpstreamEntry(t) : t \in {TagR130, TagR130rc2, TagR1}}] :
              k \in 0..MaxTags}

ReleaseRegistries ==
    {[listing |-> l, page_size |-> s, end |-> e, down |-> Up] :
        l \in ReleaseListings, s \in PageSizes, e \in Ends}

\* a ScanRepo has just been constructed for such a registry
InitReleases ==
    /\ cluster_nodes = <<>>
    /\ environ = NoRestrictions
    /\ PrepullerParked
    /\ registry \in ReleaseRegistries
    /\ ctor \in CtorArgs
    /\ dailies = Configured(ctor.dailies, DefaultDailies)
    /\ weeklies = Configured(ctor.weeklies, DefaultWeeklies)
    /\ releases = Configured(ctor.releases, DefaultReleases)
    /\ sort_field = ConfiguredSort(ctor.sort_field)
    /\ data = NoData
    /\ _all_tags = <<>>
    /\ spc = "idle"
    /\ page = 0
    /\ results = <<>>
    /\ all_tags = <<>>
    /\ rpc = "idle"
    /\ rdata = NoData
    /\ rtags = <<>>
    /\ shist = NoScans
    /\ ReaperOff
    /\ ExtraOff

SpecReleases == InitReleases /\ [][NextScan]_vars

\* rc names a release candidate of the bare 4-character release tag bare
CandidateOf(rc, bare) ==
    /\ Len(bare) = 4
    /\ Len(rc) > 4
    /\ HasPrefix(rc, bare)

\* C22: after a successful scan that sorts by name, a bare 4-character
\* release tag stands before every release candidate of the same prefix in
\* the release candidates, a release candidate is kept only when its final
\* release is kept too, and every kept release has a scanned name.
C22_FinalReleaseAheadOfItsCandidates ==
    (shist.outcome = "ok" /\ sort_field = "name") =>
        LET cands == shist.candidates["release"]
            kept == {data["release"][i].name : i \in 1..Len(data["release"])}
        IN  /\ \A i, j \in 1..Len(cands) :
                  CandidateOf(cands[i].name, cands[j].name) => j < i
            /\ \A rc \in kept, bare \in ScannedNames :
                  CandidateOf(rc, bare) => bare \in kept
            /\ kept \subseteq ScannedNames

(***************************************************************************)
(* The reaper: victim selection.                                           *)
(***************************************************************************)
\* the tags a scan may have found, and the lists of up to MaxTags of them
\* in the order get_all_tags() returns them
ReapTags == {TagD1, TagD2, TagD_3, TagW1, TagR1, TagExp}
ReapLists ==
    {q \in UNION {[1..k -> ReapTags] : k \in 0..MaxTags} :
        \A i, j \in 1..Len(q) : i # j => q[i] # q[j]}

\* the record the scanner's map holds for a tag: the upstream update time
\* and the content hash
ScannedRecord(tag) ==
    [last_updated |-> UpstreamEntry(tag).last_updated, hash |-> <<"#">> \o tag]

\* the scanner's map after a scan that found the tags of q
ResultsMap(q) == [t \in Range(q) |-> ScannedRecord(t)]

\* the retention counts a Reaper may be constructed with: one count for
\* the three categories
Keeps == {0, 1}

\* the list _categorize_tags appends a tag to ("" when none)
ReapCategory(t) ==
    IF StartsWith(t, <<"w">>) THEN "weekly"
    ELSE IF StartsWith(t, <<"d">>) THEN "daily"
    ELSE IF StartsWith(t, <<"e", "x", "p">>) THEN "experimental"
    ELSE ""

\* the appending loop of _categorize_tags
RECURSIVE AppendAll(_, _)
AppendAll(cat, tags) ==
    IF Len(tags) = 0 THEN cat
    ELSE LET c == ReapCategory(Head(tags))
         IN  AppendAll(IF c = "" THEN cat
                       ELSE [cat EXCEPT ![c] = Append(@, Head(tags))],
                       Tail(tags))

\* the sort key of a tag: its update time, parsed
UpdateTime(map, tag) ==
    LET ts == map[tag].last_updated
        t == IF Last(ts) = "Z"
             THEN SubSeq(ts, 1, Len(ts) - 1) \o <<"U", "T", "C">> ELSE ts
    IN  Digit(t[1])

\* list.sort(key=...): ascending and stable
RECURSIVE SortByUpdate(_, _)
SortByUpdate(list, map) ==
    IF Len(list) = 0 THEN <<>>
    ELSE LET rest == SortByUpdate(SubSeq(list, 1, Len(list) - 1), map)
             t == Last(list)
             NotAfter(x) == UpdateTime(map, x) <= UpdateTime(map, t)
             After(x) == UpdateTime(map, x) > UpdateTime(map, t)
         IN  SelectSeq(rest, NotAfter) \o <<t>> \o SelectSeq(rest, After)

\* the order in which _categorize_tags sorts the lists
sortorder == <<"experimental", "daily", "weekly">>

\* _categorize_tags on the class attribute cat: the exception it raises
\* ("" when none) and the lists it leaves. The key of a tag that is not in
\* the map raises KeyError, and that list and those after it stay unsorted.
_categorize_tags(cat, tags, map) ==
    LET appended == AppendAll(cat, tags)
        Missing(c) == \E i \in 1..Len(appended[c]) : appended[c][i] \notin DOMAIN map
        failing == {i \in 1..Len(sortorder) : Missing(sortorder[i])}
        first == IF failing = {} THEN Len(sortorder) + 1
                 ELSE CHOOSE i \in failing : \A j \in failing : i <= j
        Place(c) == CHOOSE i \in 1..Len(sortorder) : sortorder[i] = c
    IN  [raised |-> IF failing = {} THEN "" ELSE "KeyError",
         cat |-> [c \in DOMAIN appended |->
                     IF Place(c) < first THEN SortByUpdate(appended[c], map)
                     ELSE appended[c]]]

\* seq[:stop] for any integer stop
SliceTo(seq, stop) ==
    LET n == Len(seq)
        e == IF stop < 0 THEN (IF n + stop < 0 THEN 0 ELSE n + stop)
             ELSE (IF stop > n THEN n ELSE stop)
    IN  SubSeq(seq, 1, e)

\* the keys of a dict filled in the order of seq: each at its first place
RECURSIVE KeysOf(_, _)
KeysOf(seq, seen) ==
    IF Len(seq) = 0 THEN <<>>
    ELSE IF Head(seq) \in seen THEN KeysOf(Tail(seq), seen)
    ELSE <<Head(seq)>> \o KeysOf(Tail(seq), seen \cup {Head(seq)})

\* _select_victims: the exception it raises, the lists _categorize_tags
\* leaves, and the dict it stores in self.reapable (the old one when it
\* raises)
_select_victims(cat, tags, map, old, ke, kd, kw) ==
    LET sc == _categorize_tags(cat, tags, map)
        reaptags == SliceTo(sc.cat["experimental"], -(ke))
                       \o SliceTo(sc.cat["daily"], -(kd))
                       \o SliceTo(sc.cat["weekly"], -(kw))
        keys == KeysOf(reaptags, {})
    IN  IF sc.raised # "" THEN [raised |-> sc.raised, cat |-> sc.cat, reapable |-> old]
        ELSE IF \E i \in 1..Len(keys) : keys[i] \notin DOMAIN map
        THEN [raised |-> "KeyError", cat |-> sc.cat, reapable |-> old]
        ELSE [raised |-> "", cat |-> sc.cat,
              reapable |-> [i \in 1..Len(keys) |->
                              [tag |-> keys[i], hash |-> map[keys[i]].hash]]]

\* list(self.reapable.keys())
ReapableKeys == [i \in 1..Len(reapable) |-> reapable[i].tag]

\* neither the reaper nor anything else is in a call
ReaperIdle == kpc = "idle"

\* the history when a call begins
Called(call) ==
    [khist EXCEPT !.calls = @ + 1,
                  !.reaped = @ \/ call = "reap",
                  !.attempted = <<>>,
                  !.last = NoStep]

\* report_reapable(): select the victims and return their names
report_reapable ==
    /\ ReaperIdle
    /\ khist.calls < MaxCalls
    /\ LET v == _select_victims(_categorized_tags, _all_tags, _results_map,
                                reapable, keep_experimentals, keep_dailies,
                                keep_weeklies)
       IN  /\ _categorized_tags' = v.cat
           /\ reapable' = v.reapable
           /\ khist' = [Called("report_reapable") EXCEPT !.last.raised = v.raised]
    /\ UNCHANGED <<_results_map, keep_vars, registry_url, delete_vars>>
    /\ UNCHANGED <<prepull_vars, scanner_vars, info, extra_vars>>

(***************************************************************************)
(* The reaper: deletion.                                                   *)
(***************************************************************************)
\* registry URLs: the public hub and a registry of one's own
HubUrl == "https://registry.hub.docker.com/"
OwnUrl == "https://registry.example.org/v2/o/n/"
\* registry_url.startswith("https://registry.hub.docker.com")
IsDockerHub(url) == url = HubUrl

\* how a request may end: with a status, or with an exception of the
\* transport (written as the status 0)
Statuses == {202, 401, 404, 500}
NoReply == 0
Replies == Statuses \cup {NoReply}
Succeeded(sc) == sc >= 200 /\ sc < 300

\* the Www-Authenticate header of a 401: its scheme and the keys of its
\* k=v pairs
FullChallenge == [scheme |-> "Bearer", keys |-> {"realm", "service", "scope"}]
NoScopeChallenge == [scheme |-> "Bearer", keys |-> {"realm", "service"}]
BasicChallenge == [scheme |-> "Basic", keys |-> {"realm"}]
Challenges == {FullChallenge, NoScopeChallenge, BasicChallenge}

\* _authenticate_to_repo: what it returns (None, the empty dict or a dict
\* with an Authorization header) and whether it asked the realm for a token
_authenticate_to_repo(challenge, granted) ==
    IF challenge.scheme = "Bearer"
    THEN IF ~({"realm", "service", "scope"} \subseteq challenge.keys)
         THEN [returns |-> "None", asked |-> FALSE]
         ELSE IF granted THEN [returns |-> "Authorization", asked |-> TRUE]
         ELSE [returns |-> "{}", asked |-> TRUE]
    ELSE [returns |-> "{}", asked |-> FALSE]

\* what the registry and the realm may answer during one pass of the
\* deletion loop: the reply to the first DELETE and, after a 401, the
\* challenge, whether the realm grants a token when asked, and the reply to
\* a second DELETE (answers that no request asks for are left out)
Answers ==
    {a \in [first : Replies, challenge : Challenges, granted : BOOLEAN,
            second : Replies] :
        /\ a.first # 401 =>
              a.challenge = FullChallenge /\ ~a.granted /\ a.second = NoReply
        /\ a.challenge = NoScopeChallenge => ~a.granted /\ a.second = NoReply
        /\ a.challenge = BasicChallenge => ~a.granted}

\* a dict without a key
Remove(map, t) == [x \in DOMAIN map \ {t} |-> map[x]]

\* one pass of the deletion loop of _delete_from_repo for a tag: the replies
\* to the DELETE requests it sends, whether the realm was asked for a token
\* and gave one, the exception that ends it, and whether it deletes the
\* tag from the map
DeletePass(first, challenge, granted, second) ==
    IF first = NoReply
    THEN [statuses |-> <<first>>, asked |-> FALSE, token |-> FALSE,
          raised |-> "ConnectionError", removed |-> FALSE]
    ELSE IF first # 401
    THEN [statuses |-> <<first>>, asked |-> FALSE, token |-> FALSE,
          raised |-> "", removed |-> Succeeded(first)]
    ELSE LET auth_hdr == _authenticate_to_repo(challenge, granted)
             token == auth_hdr.returns = "Authorization"
         IN  IF auth_hdr.returns = "None"
             THEN [statuses |-> <<first>>, asked |-> auth_hdr.asked,
                   token |-> token, raised |-> "TypeError", removed |-> FALSE]
             ELSE IF second = NoReply
             THEN [statuses |-> <<first, second>>, asked |-> auth_hdr.asked,
                   token |-> token, raised |-> "ConnectionError",
                   removed |-> FALSE]
             ELSE [statuses |-> <<first, second>>, asked |-> auth_hdr.asked,
                   token |-> token, raised |-> "", removed |-> Succeeded(second)]

\* the pass that deletes from the map whatever the reply was
HubDeletePass_any(reply) ==
    [statuses |-> <<reply>>, asked |-> FALSE, token |-> FALSE,
     raised |-> "", removed |-> TRUE]

\* one pass of the deletion loop of _delete_tags_from_docker_hub
HubDeletePass(reply) ==
    IF reply = NoReply
    THEN [statuses |-> <<reply>>, asked |-> FALSE, token |-> FALSE,
          raised |-> "ConnectionError", removed |-> FALSE]
    ELSE [statuses |-> <<reply>>, asked |-> FALSE, token |-> FALSE,
          raised |-> "", removed |-> Succeeded(reply) \/ reply = 404]

\* _delete_from_repo without the test of dry_run
DeleteEntry_wet(tags, dry, url) ==
    IF Len(tags) = 0 THEN "idle"
    ELSE IF IsDockerHub(url) THEN "hub_login"
    ELSE "deleting"

\* _delete_from_repo up to its loops: where the thread goes next
DeleteEntry(tags, dry, url) ==
    IF Len(tags) = 0 THEN "idle"
    ELSE IF dry THEN "idle"
    ELSE IF IsDockerHub(url) THEN "hub_login"
    ELSE "deleting"

\* reap(): select the victims and enter _delete_from_repo
reap ==
    /\ ReaperIdle
    /\ khist.calls < MaxCalls
    /\ LET v == _select_victims(_categorized_tags, _all_tags, _results_map,
                                reapable, keep_experimentals, keep_dailies,
                                keep_weeklies)
           tags == [i \in 1..Len(v.reapable) |-> v.reapable[i].tag]
           next == IF v.raised # "" THEN "idle"
                   ELSE DeleteEntry(tags, dry_run, registry_url)
       IN  /\ _categorized_tags' = v.cat
           /\ reapable' = v.reapable
           /\ kpc' = next
           /\ ktags' = IF next = "idle" THEN <<>> ELSE tags
           /\ kidx' = IF next = "deleting" THEN 1 ELSE 0
           /\ khist' = [Called("reap") EXCEPT !.last.raised = v.raised]
    /\ UNCHANGED <<_results_map, keep_vars, registry_url>>
    /\ UNCHANGED <<prepull_vars, scanner_vars, info, extra_vars>>

\* what a pass of either loop leaves: the map without the tag when the pass
\* deletes it, the loop at the next tag, and the call over after the last
\* tag or an exception
AfterPass(pass) ==
    LET t == ktags[kidx]
        over == pass.raised # "" \/ kidx = Len(ktags)
    IN  /\ _results_map' = IF pass.removed THEN Remove(_results_map, t)
                           ELSE _results_map
        /\ kpc' = IF over THEN "idle" ELSE kpc
        /\ kidx' = IF over THEN 0 ELSE kidx + 1
        /\ ktags' = IF over THEN <<>> ELSE ktags
        /\ khist' = [khist EXCEPT
                        !.sent = @ + Len(pass.statuses),
                        !.attempted = Append(@, t),
                        !.last = [tag |-> t, statuses |-> pass.statuses,
                                  asked |-> pass.asked, token |-> pass.token,
                                  raised |-> pass.raised]]
        /\ UNCHANGED <<_categorized_tags, reapable, keep_vars, registry_url>>
        /\ UNCHANGED <<prepull_vars, scanner_vars, info, extra_vars>>

\* the loop of _delete_from_repo deletes the next tag
delete_tag(first, challenge, granted, second) ==
    /\ kpc = "deleting"
    /\ AfterPass(DeletePass(first, challenge, granted, second))

\* _delete_tags_from_docker_hub logs in: without a token it returns
hub_login(token) ==
    /\ kpc = "hub_login"
    /\ kpc' = IF token THEN "hub_deleting" ELSE "idle"
    /\ kidx' = IF token THEN 1 ELSE 0
    /\ ktags' = IF token THEN ktags ELSE <<>>
    /\ UNCHANGED <<_results_map, _categorized_tags, reapable, keep_vars,
                   registry_url, khist>>
    /\ UNCHANGED <<prepull_vars, scanner_vars, info, extra_vars>>

\* the loop of _delete_tags_from_docker_hub deletes the next tag
hub_delete_tag(reply) ==
    /\ kpc = "hub_deleting"
    /\ AfterPass(HubDeletePass(reply))

\* a Reaper has just been constructed on a scanner that has scanned
InitReap ==
    /\ cluster_nodes = <<>>
    /\ environ = NoRestrictions
    /\ PrepullerParked
    /\ registry = <<>>
    /\ ctor = [dailies |-> 0, weeklies |-> 0, releases |-> 0, sort_field |-> ""]
    /\ dailies = DefaultDailies
    /\ weeklies = DefaultWeeklies
    /\ releases = DefaultReleases
    /\ sort_field = "name"
    /\ \E q \in ReapLists :
          /\ data = KeptData(q)
          /\ _all_tags = q
          /\ _results_map = ResultsMap(q)
          /\ khist = [NoReaps EXCEPT !.scanned = ResultsMap(q)]
    /\ spc = "idle"
    /\ page = 0
    /\ results = <<>>
    /\ all_tags = <<>>
    /\ rpc = "idle"
    /\ rdata = NoData
    /\ rtags = <<>>
    /\ shist = NoScans
    /\ info = NoInfo
    /\ _categorized_tags = NoCategorizedTags
    /\ reapable = <<>>
    /\ \E k \in Keeps :
          /\ keep_experimentals = k
          /\ keep_dailies = k
          /\ keep_weeklies = k
    /\ dry_run \in BOOLEAN
    /\ registry_url \in {HubUrl, OwnUrl}
    /\ kpc = "idle"
    /\ ktags = <<>>
    /\ kidx = 0
    /\ ExtraOff

NextReap ==
    \/ report_reapable
    \/ reap
    \/ \E a \in Answers : delete_tag(a.first, a.challenge, a.granted, a.second)
    \/ \E token \in BOOLEAN : hub_login(token)
    \/ \E reply \in Replies : hub_delete_tag(reply)

SpecReap == InitReap /\ [][NextReap]_vars

(***************************************************************************)
(* Properties of the reaper.                                               *)
(***************************************************************************)
\* the scanned tags of a category, and the victims among them
ScannedOf(c) == {t \in Range(_all_tags) : ReapCategory(t) = c}
VictimsOf(c) == {t \in Range(ReapableKeys) : ReapCategory(t) = c}

\* the retention count of a category
KeepOf(c) ==
    CASE c = "experimental" -> keep_experimentals
      [] c = "daily" -> keep_dailies
      [] c = "weekly" -> keep_weeklies

\* a selection has run to its end
Selected == khist.calls > 0 /\ khist.last.raised = ""

\* C23: victim selection selects from each of weekly, daily and experimental
\* at most the number of its scanned tags less the retention count, and
\* never a release tag.
C23_NeverMoreThanTheSurplus ==
    /\ \A c \in {"weekly", "daily", "experimental"} :
          \/ Cardinality(VictimsOf(c)) = 0
          \/ Cardinality(VictimsOf(c)) <= Cardinality(ScannedOf(c)) - KeepOf(c)
    /\ \A t \in Range(ReapableKeys) : ~StartsWith(t, <<"r">>)

\* the k most recently updated of a set of tags of the last scan
MostRecent(tags, k) ==
    {t \in tags :
        Cardinality({u \in tags :
            UpdateTime(khist.scanned, u) > UpdateTime(khist.scanned, t)}) < k}

\* C24: after a selection the reapable tags of each category are exactly
\* its scanned tags that are not among the k most recently updated, k the
\* retention count of the category, and each carries the hash of the scan.
C24_ExactlyTheTagsBeyondTheKept ==
    (Selected /\ _results_map = khist.scanned) =>
        /\ \A c \in {"weekly", "daily", "experimental"} :
              VictimsOf(c) = ScannedOf(c) \ MostRecent(ScannedOf(c), KeepOf(c))
        /\ \A i \in 1..Len(reapable) :
              /\ reapable[i].tag \in DOMAIN khist.scanned
              /\ reapable[i].hash = khist.scanned[reapable[i].tag].hash

\* what a first call on a new reaper would select from the scan data
FirstSelection ==
    _select_victims(NoCategorizedTags, _all_tags, _results_map, <<>>,
                    keep_experimentals, keep_dailies, keep_weeklies)

\* C25: every call of report_reapable() or reap(), whatever calls went
\* before, leaves the victims a first call would select from the scan data.
C25_SelectionIsFreshEachCycle ==
    [][(khist'.calls > khist.calls /\ _results_map = khist.scanned)
          => /\ khist'.last.raised = FirstSelection.raised
             /\ reapable' = FirstSelection.reapable]_vars

\* C26: while only report_reapable() has been called, and on a dry-run
\* reaper whatever has been called, no DELETE has been sent and the
\* in-memory scan map is as the scan left it.
C26_ReportAndDryRunDeleteNothing ==
    (dry_run \/ ~khist.reaped) =>
        /\ khist.sent = 0
        /\ khist.attempted = <<>>
        /\ _results_map = khist.scanned

\* a dry-run reap() has selected victims and returned
C26_Witness ==
    /\ dry_run
    /\ khist.reaped
    /\ khist.last.raised = ""
    /\ reapable # <<>>
    /\ ReaperIdle

\* the tags a step deletes from the map
Deleted == DOMAIN _results_map \ DOMAIN _results_map'

\* C27 as stated: a tag leaves the map only in a pass for that tag whose
\* last DELETE got a 2xx status, on either path.
C27_RemovedOnlyAfterSuccess ==
    [][\A t \in Deleted :
          /\ khist'.last.tag = t
          /\ Succeeded(Last(khist'.last.statuses))]_vars

\* C27: a tag leaves the map only in a pass for that tag whose last DELETE
\* got a 2xx status or, on the public-hub path, a 404.
C27_RemovedOnlyAfterSuccessOrGone ==
    [][\A t \in Deleted :
          /\ khist'.last.tag = t
          /\ \/ Succeeded(Last(khist'.last.statuses))
             \/ /\ IsDockerHub(registry_url)
                /\ Last(khist'.last.statuses) = 404]_vars

\* on the public-hub path a tag has left the map after a 404
C27_Witness ==
    /\ IsDockerHub(registry_url)
    /\ khist.last.statuses = <<404>>
    /\ khist.last.tag \in DOMAIN khist.scanned
    /\ khist.last.tag \notin DOMAIN _results_map

\* C28: a pass sends at most two DELETE requests, the second only after a
\* 401 to the first and after the realm of the challenge was asked for a
\* token, and a second request that fails ends the pass without exception.
C28_AtMostOneRetryAfterTokenExchange ==
    LET s == khist.last.statuses
    IN  /\ Len(s) <= 2
        /\ Len(s) = 2 =>
              /\ s[1] = 401
              /\ khist.last.asked
              /\ (s[2] \in Statuses /\ ~Succeeded(s[2])) => khist.last.raised = ""

\* C29: a pass whose first DELETE got a 401 that led to no token sends no
\* second DELETE, leaves the tag in the map and ends without exception.
C29_NoTokenAbandonsTheTagOnly ==
    LET s == khist.last.statuses
    IN  (s # <<>> /\ s[1] = 401 /\ ~khist.last.token) =>
            /\ Len(s) = 1
            /\ khist.last.tag \in DOMAIN _results_map
            /\ khist.last.raised = ""

\* C30: a pass whose DELETE fails in the transport ends without exception
\* and leaves the tag in the map, and a reap() that has returned has
\* attempted every reapable tag.
C30_TransportFailureIsSkipped ==
    LET s == khist.last.statuses
    IN  /\ (\E i \in 1..Len(s) : s[i] = NoReply) =>
              /\ khist.last.raised = ""
              /\ khist.last.tag \in DOMAIN _results_map
        /\ (ReaperIdle /\ khist.attempted # <<>>) =>
              khist.attempted = ReapableKeys

(***************************************************************************)
(* The options form manager waits for the first scan.                      *)
(***************************************************************************)
\* the settings of parent.config: the first interval is at most the longest
ScanConfigs ==
    [initial_scan_interval : {1, 2}, max_scan_interval : {2, 3},
     max_scan_delay : 1..MaxDelay]

\* the interval without the ceiling
NextInterval_uncapped(interval, max_delay_interval) == interval * 2

\* delay_interval after a sleep: doubled, and max_delay_interval at most
NextInterval(interval, max_delay_interval) ==
    IF interval * 2 > max_delay_interval THEN max_delay_interval
    ELSE interval * 2

\* _sync_scan is called: it reads the settings and tests scanner.last_updated
sync_scan_start ==
    /\ fpc = "idle"
    /\ delay_interval' = scan_cfg.initial_scan_interval
    /\ delay' = 0
    /\ fpc' = IF last_updated = "epoch" THEN "sleeping" ELSE "returned"
    /\ fhist' = [fhist EXCEPT !.ready_at_call = last_updated # "epoch",
                              !.ready_at_end = last_updated # "epoch"]
    /\ UNCHANGED <<scan_cfg, last_updated>>
    /\ UNCHANGED <<prepull_vars, scanner_vars, info, reaper_vars, late_vars>>

\* the sleep is over: the rest of the loop body, then the loop test
sync_scan_wakes ==
    /\ fpc = "sleeping"
    /\ delay' = delay + delay_interval
    /\ delay_interval' = NextInterval(delay_interval, scan_cfg.max_scan_interval)
    /\ fpc' = IF delay' >= scan_cfg.max_scan_delay THEN "raised"
              ELSE IF last_updated = "epoch" THEN "sleeping"
              ELSE "returned"
    /\ fhist' = [fhist EXCEPT !.sleeps = Append(@, delay_interval),
                              !.ready_at_end = last_updated # "epoch"]
    /\ UNCHANGED <<scan_cfg, last_updated>>
    /\ UNCHANGED <<prepull_vars, scanner_vars, info, reaper_vars, late_vars>>

\* the scanner's first scan ends
first_scan_ends ==
    /\ last_updated = "epoch"
    /\ last_updated' = "scanned"
    /\ UNCHANGED <<scan_cfg, fpc, delay_interval, delay, fhist>>
    /\ UNCHANGED <<prepull_vars, scanner_vars, info, reaper_vars, late_vars>>

\* a form manager whose scanner has been started
InitForm ==
    /\ cluster_nodes = <<>>
    /\ environ = NoRestrictions
    /\ PrepullerParked
    /\ ScannerOff
    /\ ReaperOff
    /\ LateOff
    /\ scan_cfg \in ScanConfigs
    /\ last_updated = "epoch"
    /\ fpc = "idle"
    /\ delay_interval = 0
    /\ delay = 0
    /\ fhist = NoWaits

NextForm ==
    \/ sync_scan_start
    \/ sync_scan_wakes
    \/ first_scan_ends

SpecForm == InitForm /\ [][NextForm]_vars

\* the sum of a sequence of numbers
RECURSIVE Sum(_)
Sum(seq) == IF Len(seq) = 0 THEN 0 ELSE Head(seq) + Sum(Tail(seq))

C32_FailsOnlyWithoutAScan ==
    fpc = "raised" => last_updated = "epoch"

(***************************************************************************)
(* wait_for_pod: the poll loop of a worker.                                *)
(***************************************************************************)
\* a step of the worker of node n inside wait_for_pod, and how it may end
\* the call: the pod deleted after a terminal phase was read, or the error
\* of the poll budget after max_tries reads
Polls(n) == wpc[n] = "poll" /\ (wpc'[n] # "poll" \/ tries'[n] # tries[n])
EndsByDelete(n) ==
    /\ wpc[n] = "delete"
    /\ wpc'[n] \in {"start", "finished"}
    /\ wphase[n] \in Terminal
    /\ wpod[n] \in DOMAIN pods
    /\ wpod[n] \notin DOMAIN pods'
EndsByBudget(n) ==
    /\ wpc[n] = "poll"
    /\ wpc'[n] = "crashed"
    /\ wexc'[n] = "RuntimeError"
    /\ tries[n] = max_tries
    /\ UNCHANGED pods
EndsByApiError(n) ==
    /\ wpc[n] \in {"poll", "delete"}
    /\ wpc'[n] = "crashed"
    /\ wexc'[n] = "NotFound"
    /\ wpod[n] \notin DOMAIN pods
    /\ UNCHANGED pods

\* what holds of every call whatever its end: the reads are counted by
\* tries, which a turn of the loop that stays in the loop raises by one and
\* which never passes max_tries (so there are at most max_tries reads and
\* max_tries - 1 sleeps), and the loop is left for the delete only with a
\* terminal phase read
BoundedPolling(n) ==
    /\ tries'[n] <= max_tries
    /\ (Polls(n) /\ wpc'[n] = "poll") => tries'[n] = tries[n] + 1
    /\ (Polls(n) /\ wpc'[n] = "delete") => wphase'[n] \in Terminal

\* C33 as stated: bounded polling, and every call of wait_for_pod ends by
\* deleting the pod after a terminal phase or by the poll-budget error.
C33_WaitEndsByDeleteOrBudget ==
    [][\A n \in NodeNames :
          /\ BoundedPolling(n)
          /\ (wpc[n] \in {"poll", "delete"} /\ wpc'[n] \notin {"poll", "delete"})
                => (EndsByDelete(n) \/ EndsByBudget(n))]_vars

\* C33: bounded polling, and every call of wait_for_pod ends by deleting
\* the pod after a terminal phase, by the poll-budget error, or by the
\* error of the cluster API when the pod is no longer there to read or
\* delete; a worker deletes no pod in any other step.
C33_WaitEndsByDeleteBudgetOrApiError ==
    [][\A n \in NodeNames :
          /\ BoundedPolling(n)
          /\ (wpc[n] \in {"poll", "delete"} /\ wpc'[n] \notin {"poll", "delete"})
                => (EndsByDelete(n) \/ EndsByBudget(n) \/ EndsByApiError(n))
          /\ (wpc'[n] # wpc[n] /\ wpc[n] # "delete") => DOMAIN pods \subseteq DOMAIN pods']_vars

\* a worker ran out of its poll budget, and another found its pod gone
C33_Witness ==
    \E n, m \in NodeNames :
        /\ wexc[n] = "RuntimeError"
        /\ tries[n] = max_tries
        /\ wexc[m] = "NotFound"

(***************************************************************************)
(* reject_by_label: which nodes the restriction switches let through.      *)
(***************************************************************************)
\* the node is suitable for Lab or Dask under the switches of os.environ
Suitable(thing) ==
    \/ Get(thing.labels, "jupyterlab") = "ok"
    \/ /\ environ.ALLOW_DASK_SPAWN
       /\ \/ ~environ.RESTRICT_DASK_NODES
          \/ Get(thing.labels, "dask") = "ok"

\* the nodes of the cluster that are neither cordoned nor tainted
Untainted ==
    {cluster_nodes[i] : i \in {j \in 1..Len(cluster_nodes) :
        /\ ~cluster_nodes[j].unschedulable
        /\ "NoSchedule" \notin cluster_nodes[j].taints}}

\* C35 as stated: with RESTRICT_LAB_NODES set the built list holds an
\* untainted node exactly when the node is suitable for Lab or Dask, and
\* with RESTRICT_LAB_NODES unset it holds every untainted node.
C35_OnlySuitableNodesPass ==
    hist.last_op = "build_nodelist" =>
        \A thing \in Untainted :
            thing.name \in Range(nodes)
                <=> (~environ.RESTRICT_LAB_NODES \/ Suitable(thing))

\* C35: with RESTRICT_LAB_NODES set the built list holds an untainted node
\* exactly when the node is suitable for Lab or Dask or carries no label
\* at all, and with RESTRICT_LAB_NODES unset it holds every untainted node.
C35_OnlySuitableOrUnlabelledNodesPass ==
    hist.last_op = "build_nodelist" =>
        \A thing \in Untainted :
            thing.name \in Range(nodes)
                <=> \/ ~environ.RESTRICT_LAB_NODES
                    \/ Suitable(thing)
                    \/ DOMAIN thing.labels = {}

\* under all three restrictions a list was built that holds a Dask node and
\* an unlabelled node
C35_Witness ==
    /\ hist.last_op = "build_nodelist"
    /\ environ.RESTRICT_LAB_NODES
    /\ environ.ALLOW_DASK_SPAWN
    /\ environ.RESTRICT_DASK_NODES
    /\ \E a, b \in Untainted :
          /\ a.labels = DaskLabels
          /\ a.name \in Range(nodes)
          /\ b.labels = NoLabels
          /\ b.name \in Range(nodes)

(***************************************************************************)
(* The workers after the run timeout.                                      *)
(***************************************************************************)
\* C36: once the timeout handler has finished its non-selective cleanup and
\* raised "Timed out", the namespace holds no pod that a worker of run_pods
\* created.
C36_NoMatrixPodAfterTimeout ==
    mpc = "TimedOut" => \A p \in DOMAIN pods : ~pods[p].mine

(***************************************************************************)
(* Prepuller.__init__ with an explicit image list.  Prepuller.images is a  *)
(* list of the class: until __init__ assigns self.images, self.images is   *)
(* that list, and it outlives every object.                                *)
(***************************************************************************)
\* the longest args.list
MaxList == 2

\* ":latest" and "library/"
Latest == <<":", "l", "a", "t", "e", "s", "t">>
Library == <<"l", "i", "b", "r", "a", "r", "y", "/">>

\* the body of the loop over args.list: the fully-qualified image name
Qualify(image) ==
    LET tagged == IF Count(image, ":") = 0 THEN image \o Latest ELSE image
    IN  IF Count(tagged, "/") = 0 THEN Library \o tagged ELSE tagged

\* image names as a user lists them: "n", "b", "o/n", "n:t", "o/n:t"
ListedNames ==
    {<<"n">>, <<"b">>, <<"o", "/", "n">>, <<"n", ":", "t">>,
     <<"o", "/", "n", ":", "t">>}

\* the values of args.list
ArgLists == UNION {[1..k -> ListedNames] : k \in 0..MaxList}

\* what the loop over args.list and the append after it add to self.images:
\* the loop qualifies every image in its loop variable, the append that follows
\* the loop sees the variable's last value
Appended(list) == <<Qualify(Last(list))>>

\* Prepuller.__init__(args): self.debug is read although neither the class
\* nor the object has it unless args.debug set it
__init__(i, list, debug) ==
    /\ inst[i].state = "new"
    /\ IF ~debug
       THEN /\ inst' = [inst EXCEPT ![i].state = "AttributeError",
                                    ![i].list = list]
            /\ UNCHANGED class_images
       ELSE LET shared == IF Len(list) > 0
                          THEN class_images \o Appended(list)
                          ELSE class_images
            IN  /\ class_images' = shared
                /\ inst' = [inst EXCEPT ![i] =
                              [state |-> "built", list |-> list,
                               images |-> SortedList(Range(shared))]]
    /\ UNCHANGED <<prepull_vars, scanner_vars, info, reaper_vars, form_vars,
                   ns_vars, jwt_vars>>

\* a process that is about to construct Prepuller objects
InitCtor ==
    /\ cluster_nodes = <<>>
    /\ environ = NoRestrictions
    /\ PrepullerParked
    /\ ScannerOff
    /\ ReaperOff
    /\ FormOff
    /\ CtorOff
    /\ NsOff
    /\ JwtOff

NextCtor ==
    \E i \in Instances, list \in ArgLists, debug \in BOOLEAN :
        __init__(i, list, debug)

SpecCtor == InitCtor /\ [][NextCtor]_vars

\* the listed images in fully-qualified form, without duplicates, sorted
QualifiedList(list) == SortedList({Qualify(list[k]) : k \in 1..Len(list)})

\* C37: a Prepuller constructed with an explicit image list holds every
\* listed image in fully-qualified form, without duplicates and sorted.
C37_ImagesAreTheQualifiedList ==
    \A i \in Instances :
        inst[i].state = "built" /\ Len(inst[i].list) > 0
            => inst[i].images = QualifiedList(inst[i].list)

\* C34: the image list of a Prepuller holds only images of its own
\* args.list, whatever was constructed before it.
C34_ImagesComeFromTheOwnList ==
    \A i \in Instances :
        inst[i].state = "built"
            => Range(inst[i].images)
                   \subseteq {Qualify(inst[i].list[k]) :
                                 k \in 1..Len(inst[i].list)}

(***************************************************************************)
(* LSSTNamespaceManager.maybe_delete_namespace.  The pods of a namespace   *)
(* come and go in the cluster while the manager looks at them.             *)
(***************************************************************************)
\* the phases of a pod; "NoStatus" is a pod whose status is not set
Phases == {"Pending", "Running", "Unknown", "Succeeded", "Failed", "NoStatus"}

\* the phases in which a pod keeps its namespace
Live == {"Running", "Unknown", "Pending"}

\* the user's namespace
UserNamespace == "nublado-u"

\* list_namespaced_pod: the pods the namespace holds
Items(ps) == [p \in {q \in DOMAIN ps : ps[q] # "absent"} |-> ps[p]]

\* _check_pods that lets Pending pods go
_check_pods_running_only(items) ==
    ~\E i \in DOMAIN items :
        /\ items[i] \in {"Running", "Unknown"}
        /\ ~HasPrefix(i, <<"d", "a", "s", "k", "-">>)

\* LSSTNamespaceManager._check_pods: False at the first pod that has a
\* status, a live phase and a name that does not start with "dask-"
_check_pods(items) ==
    ~\E i \in DOMAIN items :
        /\ items[i] # "NoStatus"
        /\ items[i] \in Live
        /\ ~HasPrefix(i, <<"d", "a", "s", "k", "-">>)

\* maybe_delete_namespace up to the answer of list_namespaced_pod
maybe_delete_namespace ==
    /\ npc = "idle"
    /\ IF namespace = "default"
       THEN /\ npc' = "returned None"
            /\ UNCHANGED ns_podlist
       ELSE /\ npc' = "listed"
            /\ ns_podlist' = Items(ns_pods)
    /\ UNCHANGED <<namespace, ns_exists, ns_pods, nhist>>
    /\ UNCHANGED <<prepull_vars, scanner_vars, info, reaper_vars, form_vars,
                   ctor_vars, jwt_vars>>

\* maybe_delete_namespace from the pod list on: delete_namespace takes the
\* namespace and every pod in it
delete_or_keep ==
    /\ npc = "listed"
    /\ LET clear_to_delete ==
               IF DOMAIN ns_podlist # {} THEN _check_pods(ns_podlist)
               ELSE TRUE
       IN  IF ~clear_to_delete
           THEN /\ npc' = "returned False"
                /\ UNCHANGED <<ns_exists, ns_pods, nhist>>
           ELSE /\ npc' = "returned True"
                /\ ns_exists' = FALSE
                /\ nhist' = Items(ns_pods)
                /\ ns_pods' = [p \in PodNames |-> "absent"]
    /\ UNCHANGED <<namespace, ns_podlist>>
    /\ UNCHANGED <<prepull_vars, scanner_vars, info, reaper_vars, form_vars,
                   ctor_vars, jwt_vars>>

\* the cluster: a pod is created in the namespace, or a pod moves on
pod_moves(p, phase) ==
    /\ ns_exists
    /\ npc \in {"idle", "listed"}
    /\ \/ ns_pods[p] = "absent" /\ phase = "Pending"
       \/ ns_pods[p] \in {"NoStatus", "Pending"} /\ phase = "Running"
       \/ ns_pods[p] = "Running" /\ phase \in {"Succeeded", "Failed", "Unknown"}
    /\ ns_pods' = [ns_pods EXCEPT ![p] = phase]
    /\ UNCHANGED <<namespace, ns_exists, npc, ns_podlist, nhist>>
    /\ UNCHANGED <<prepull_vars, scanner_vars, info, reaper_vars, form_vars,
                   ctor_vars, jwt_vars>>

\* a namespace manager of a user's namespace, or of "default"
InitNs ==
    /\ cluster_nodes = <<>>
    /\ environ = NoRestrictions
    /\ PrepullerParked
    /\ ScannerOff
    /\ ReaperOff
    /\ FormOff
    /\ CtorOff
    /\ JwtOff
    /\ namespace \in {"default", UserNamespace}
    /\ ns_exists = TRUE
    /\ ns_pods \in [PodNames -> Phases \cup {"absent"}]
    /\ npc = "idle"
    /\ ns_podlist = [p \in {} |-> "absent"]
    /\ nhist = [p \in {} |-> "absent"]

NextNs ==
    \/ maybe_delete_namespace
    \/ delete_or_keep
    \/ \E p \in PodNames, phase \in Phases : pod_moves(p, phase)

SpecNs == InitNs /\ [][NextNs]_vars

\* a pod that the claim says keeps its namespace
HoldsLivePod(items) ==
    \E p \in DOMAIN items :
        /\ items[p] \in {"Running", "Pending", "Unknown"}
        /\ \/ Len(p) < 5
           \/ SubSeq(p, 1, 5) # <<"d", "a", "s", "k", "-">>

\* C38 as stated: "default" is never deleted, and a namespace that was
\* deleted held, when it was deleted, no pod in phase Running, Pending or
\* Unknown but pods named dask-...
C38_DeletedOnlyWhenEmptyAtDeletion ==
    /\ namespace = "default" => ns_exists
    /\ npc = "returned True" => ~HoldsLivePod(nhist)

\* C38: "default" is never deleted, and a namespace that was deleted held,
\* in the pod list maybe_delete_namespace read before the deletion, no pod
\* in phase Running, Pending or Unknown but pods named dask-...
C38_DeletedOnlyWhenEmptyAtListing ==
    /\ namespace = "default" => ns_exists
    /\ ~ns_exists => npc = "returned True" /\ ~HoldsLivePod(ns_podlist)

\* a namespace was deleted whose pod list held a running dask- pod and a
\* pod that had ended
C38_Witness ==
    /\ npc = "returned True"
    /\ ~ns_exists
    /\ DaskPod \in DOMAIN ns_podlist
    /\ ns_podlist[DaskPod] = "Running"
    /\ \E p \in DOMAIN ns_podlist : ns_podlist[p] \in {"Succeeded", "Failed"}

(***************************************************************************)
(* LSSTJWTLoginHandler.get: login by the token a request carries.  The     *)
(* authenticator reads the Authorization header and verifies by secret.    *)
(***************************************************************************)
\* the groups a token names and the lists of the configuration draw from
Groups == {"g1", "g2"}

\* the requests: the first word of the Authorization header if there is
\* one, a token parameter, an XSRF-TOKEN cookie, whether the token's exp is
\* in the past, and the token's user name and isMemberOf
Requests ==
    [header : {"", "bearer", "token"}, param : BOOLEAN, cookie : BOOLEAN,
     expired : BOOLEAN, user : {"u", "v"}, groups : SUBSET Groups]

\* _check_auth_header: the status of the web error it raises, 0 when it
\* returns the claims and the token
_check_auth_header(req) ==
    LET verified == IF req.expired THEN 401 ELSE 0
    IN  IF req.header # "" /\ req.param THEN 400
        ELSE IF req.header # ""
        THEN IF req.header # "bearer" THEN 403 ELSE verified
        ELSE IF req.cookie THEN verified
        ELSE IF req.param THEN verified
        ELSE 401

\* authmanager.check_membership(groups, allowed, forbidden)
check_membership(groups, allowed, forbidden) ==
    IF forbidden # {} /\ forbidden \cap groups # {} THEN FALSE
    ELSE IF allowed = {} THEN TRUE
    ELSE allowed \cap groups # {}

\* _jwt_validate_user_from_claims_groups: it hands the lists and the
\* membership to the authenticator and calls am.check_membership(), a method
\* that LSSTAuthManager does not have
_jwt_validate_user_from_claims_groups(claims) == "AttributeError"

\* _check_groups_jwt: an exception of the validation passes through
_check_groups_jwt(claims) ==
    LET valid == _jwt_validate_user_from_claims_groups(claims)
    IN  IF valid = "AttributeError" THEN "AttributeError"
        ELSE IF valid = "False" THEN "False"
        ELSE "True"

\* LSSTJWTLoginHandler.get: an HTTPError ends the request with its status,
\* any other exception with 500, the redirect with 302
get(req) ==
    /\ jreq' = req
    /\ IF _check_auth_header(req) # 0
       THEN /\ response' = _check_auth_header(req)
            /\ UNCHANGED <<auth_states, login_cookies>>
       ELSE /\ auth_states' = auth_states \cup {req.user}
            /\ LET passed == _check_groups_jwt(req.groups)
               IN  CASE passed = "AttributeError" ->
                            /\ response' = 500
                            /\ UNCHANGED login_cookies
                     [] passed = "False" ->
                            /\ response' = 403
                            /\ UNCHANGED login_cookies
                     [] OTHER ->
                            /\ response' = 302
                            /\ login_cookies' = login_cookies \cup {req.user}
    /\ UNCHANGED <<cilogon_allowlist, cilogon_denylist>>
    /\ UNCHANGED <<prepull_vars, scanner_vars, info, reaper_vars, form_vars,
                   ctor_vars, ns_vars>>

\* a hub that has served no login yet
InitJwt ==
    /\ cluster_nodes = <<>>
    /\ environ = NoRestrictions
    /\ PrepullerParked
    /\ ScannerOff
    /\ ReaperOff
    /\ FormOff
    /\ CtorOff
    /\ NsOff
    /\ cilogon_allowlist \in SUBSET Groups
    /\ cilogon_denylist \in SUBSET Groups
    /\ auth_states = {}
    /\ login_cookies = {}
    /\ jreq = NoRequest
    /\ response = 0

NextJwt == \E req \in Requests : get(req)

SpecJwt == InitJwt /\ [][NextJwt]_vars

\* C39: a request with a valid token whose groups fail the allowed and
\* forbidden lists ends with 403, and neither was an auth state saved for
\* its user nor a login cookie set.
C39_RefusedLoginLeavesNoTrace ==
    /\ response # 0
    /\ _check_auth_header(jreq) = 0
    /\ ~check_membership(jreq.groups, cilogon_allowlist, cilogon_denylist)
    => /\ response = 403
       /\ jreq.user \notin auth_states
       /\ jreq.user \notin login_cookies
====
